---------------------------- MODULE Spec2Model ----------------------------
(***************************************************************************)
(* Verification model of the WEEX contract SDK core:                       *)
(*   - ErrorModel   (types.ErrorCodeMap / GetErrorCategory, weex/errors.go)*)
(*   - Retrier      (weex/retry: DoWithRetry, isRetriable, calculateBackoff)*)
(*   - RequestPipeline (weex/rest/client.go: DoRequest, doRequestOnce,     *)
(*                      parseResponse)                                     *)
(*   - TokenBucket / RateLimiter (weex/rate_limiter.go)                    *)
(*   - StreamSession (weex/websocket/client.go: Connect, Close, Subscribe, *)
(*                    Unsubscribe, the pumps, handleDisconnect,            *)
(*                    attemptReconnect, resubscribe)                       *)
(*   - MessageRouter (weex/websocket/client.go: handleMessage)             *)
(* Durations and instants are counted in abstract clock ticks.             *)
(***************************************************************************)
EXTENDS Integers, Sequences, FiniteSets, Bags, TLC

(***************************************************************************)
(* Bounds of the model.                                                    *)
(***************************************************************************)
MaxRetriesBound == 3
MaxConfigRetries == 1
MaxInitialBackoff == 2
MaxBackoffBound == 3
NumCallers == 2
MaxDials == 2
MaxReconnect == 1
QueueCap == 1
MaxCalls == 3
MaxFrames == 2
MaxClock == 6
MaxNow == 3

\* Config.IPWeight and Config.UIDWeight (300 and 100 by default), scaled down
IPWeight == 2
UIDWeight == 1

\* NewRateLimiter's refill window, 5 * time.Second, in ticks
RefillWindow == 2

\* DefaultReconnectDelay (1 s) and the 30 s cap of attemptReconnect, in ticks
ReconnectDelay == 2
\* DefaultPingInterval (30 s) and DefaultPongWait (60 s), in ticks of 15 s
PingInterval == 2
PongWait == 4
DelayCap == 3

(***************************************************************************)
(* ErrorModel: types.ErrorType, types.ErrorCategory, types.ErrorCodeMap.   *)
(***************************************************************************)
ErrorTypes ==
    {"Unknown", "Auth", "RateLimit", "Validation", "Network", "System",
     "Permission", "Business"}

ErrorCategory(type, retriable) == [Type |-> type, Retriable |-> retriable]

\* A nil *ErrorCategory (an APIError built without NewAPIError).
NilCategory == [Type |-> "nil", Retriable |-> FALSE]

AuthCodes ==
    {"40001", "40002", "40003", "40004", "40005", "40006", "40007", "40008",
     "40009", "40010", "40011", "40012", "40013", "40014", "40753"}
PermissionCodes == {"40022", "50003", "50004"}
ValidationCodes == {"40017", "40019", "40020"}
RateLimitCodes == {"429"}
SystemCodes == {"40015", "40018", "50000", "50001", "50002"}
BusinessCodes == {"50005", "50006", "50007", "50008", "50009", "50010"}

ErrorCodeMap ==
    [c \in AuthCodes |-> ErrorCategory("Auth", FALSE)] @@
    [c \in PermissionCodes |-> ErrorCategory("Permission", FALSE)] @@
    [c \in ValidationCodes |-> ErrorCategory("Validation", FALSE)] @@
    [c \in RateLimitCodes |-> ErrorCategory("RateLimit", TRUE)] @@
    [c \in SystemCodes |-> ErrorCategory("System", TRUE)] @@
    [c \in BusinessCodes |-> ErrorCategory("Business", FALSE)]

\* GetErrorCategory with a default that is retriable
GetErrorCategoryRetriableDefault(c) ==
    IF c \in DOMAIN ErrorCodeMap
    THEN ErrorCodeMap[c]
    ELSE ErrorCategory("Unknown", TRUE)

GetErrorCategory(code) ==
    IF code \in DOMAIN ErrorCodeMap
    THEN ErrorCodeMap[code]
    ELSE ErrorCategory("Unknown", FALSE)

(***************************************************************************)
(* Go error values.  An error is its Unwrap chain, outermost layer first;  *)
(* nil is the empty chain.  A layer is                                     *)
(*   t = "plain"    an fmt.Errorf / fmt.wrapError or errors.New value      *)
(*   t = "api"      *APIError (no Unwrap method: the chain ends there)     *)
(*   t = "net"      *NetworkError (Unwrap returns Err)                     *)
(*   t = "ctx"      context.Canceled / context.DeadlineExceeded            *)
(*   t = "sentinel" a package-level error variable                         *)
(* "text" holds an operand formatted with %v: part of the message, not of  *)
(* the chain.                                                              *)
(***************************************************************************)
Layer(t, code, cat, text) == [t |-> t, code |-> code, cat |-> cat, text |-> text]

NilError == <<>>

ContextCanceled == <<Layer("ctx", "canceled", NilCategory, <<>>)>>
ContextDeadlineExceeded == <<Layer("ctx", "deadline", NilCategory, <<>>)>>

\* ctx.Err() once the context is done
CtxErr(done) == IF done = "canceled" THEN ContextCanceled ELSE ContextDeadlineExceeded

NewAPIError(code) == <<Layer("api", code, GetErrorCategory(code), <<>>)>>

NewNetworkError(err) == <<Layer("net", "", NilCategory, <<>>)>> \o err

\* fmt.Errorf("...: %w", err)
ErrorfW(err) == <<Layer("plain", "", NilCategory, <<>>)>> \o err

\* fmt.Errorf("... %s ...", code): a message only, code kept as its text
ErrorfText(code) == <<Layer("plain", code, NilCategory, <<>>)>>

ErrMaxRetriesExceeded == <<Layer("sentinel", "ErrMaxRetriesExceeded", NilCategory, <<>>)>>

\* fmt.Errorf("%w: %v", ErrMaxRetriesExceeded, lastErr)
MaxRetriesExceededError(lastErr) ==
    <<Layer("plain", "", NilCategory, lastErr)>> \o ErrMaxRetriesExceeded

\* The layers errors.Is / errors.As visit: the chain up to the first layer
\* that has no Unwrap method.
RECURSIVE Visited(_)
Visited(err) ==
    IF err = <<>> THEN <<>>
    ELSE IF Head(err).t \in {"api", "ctx", "sentinel"} THEN <<Head(err)>>
    ELSE <<Head(err)>> \o Visited(Tail(err))

ErrorsIsCtx(err) ==
    \E i \in 1..Len(Visited(err)) : Visited(err)[i].t = "ctx"

ErrorsIs(err, target) ==
    \E i \in 1..Len(Visited(err)) : Visited(err)[i] = target[1]

ErrorsAs(err, t) ==
    \E i \in 1..Len(Visited(err)) : Visited(err)[i].t = t

\* the first layer of type t (errors.As target), when ErrorsAs(err, t)
AsTarget(err, t) ==
    LET v == Visited(err)
        i == CHOOSE k \in 1..Len(v) :
                 v[k].t = t /\ \A j \in 1..(k - 1) : v[j].t # t
    IN v[i]

\* APIError.IsRetriable
APIErrorIsRetriable(e) == e.cat # NilCategory /\ e.cat.Retriable

(***************************************************************************)
(* Retrier                                                                 *)
(***************************************************************************)
VARIABLES
    retrier,      \* Retrier{maxRetries, initialBackoff, maxBackoff, backoffFactor}
    pc,           \* position of DoWithRetry: "loop", "call", "sleep", "done"
    attempt,      \* loop variable attempt
    lastErr,      \* local lastErr
    result,       \* the error DoWithRetry returned (when pc = "done")
    ctxDone,      \* ctx state: "none", "canceled", "deadline"
    timer,        \* ticks left until time.After(backoff) fires
    outcomes,     \* history: the errors fn() returned, in order
    sleeps,       \* history: the backoff durations handed to time.After
    slept,        \* history: ticks actually spent in backoff sleeps
    cancelAt      \* history: where the cancellation fired

retryVars ==
    <<retrier, pc, attempt, lastErr, result, ctxDone, timer, outcomes, sleeps,
      slept, cancelAt>>

\* backoffFactor is a float64 > 1; modelled as the rational fnum / fden
BackoffFactors == {<<2, 1>>, <<3, 2>>}

Retriers ==
    [maxRetries : (0 - 1)..MaxRetriesBound,
     initialBackoff : 1..MaxInitialBackoff,
     maxBackoff : 1..MaxBackoffBound,
     backoffFactor : BackoffFactors]

RECURSIVE Pow(_, _)
Pow(b, n) == IF n = 0 THEN 1 ELSE b * Pow(b, n - 1)

\* calculateBackoff with the cap at maxBackoff left out
calculateBackoffNoCap(r, n) ==
    (r.initialBackoff * Pow(r.backoffFactor[1], n)) \div Pow(r.backoffFactor[2], n)

\* Retrier.calculateBackoff: initialBackoff * factor^attempt, capped at
\* maxBackoff, then truncated to a whole time.Duration
calculateBackoff(r, n) ==
    LET num == r.initialBackoff * Pow(r.backoffFactor[1], n)
        den == Pow(r.backoffFactor[2], n)
    IN IF num > r.maxBackoff * den THEN r.maxBackoff ELSE num \div den

\* Retrier.isRetriable
isRetriable(err) ==
    IF err = NilError THEN FALSE
    ELSE IF ErrorsIsCtx(err) THEN FALSE
    ELSE IF ErrorsAs(err, "api") THEN APIErrorIsRetriable(AsTarget(err, "api"))
    ELSE IF ErrorsAs(err, "net") THEN TRUE
    ELSE FALSE

\* The errors an arbitrary closure handed to DoWithRetry may return.
FnErrors ==
    {NilError,
     NewAPIError("429"), NewAPIError("50000"), NewAPIError("40007"),
     NewAPIError("99999"),
     ErrorfW(NewAPIError("429")),
     NewNetworkError(ErrorfText("")),
     NewNetworkError(ContextDeadlineExceeded),
     ErrorfW(ContextCanceled),
     ErrorfText("")}

InitRetryVars ==
    /\ retrier \in Retriers
    /\ pc = "loop"
    /\ attempt = 0
    /\ lastErr = NilError
    /\ result = NilError
    /\ ctxDone = "none"
    /\ timer = 0
    /\ outcomes = <<>>
    /\ sleeps = <<>>
    /\ slept = 0
    /\ cancelAt = [pc |-> "never", calls |-> 0, attempt |-> 0, timer |-> 0]

\* return err
Return(err) ==
    /\ pc' = "done"
    /\ result' = err

\* The caller's context is cancelled (or its deadline passes) while
\* DoWithRetry runs.
Cancel ==
    /\ pc # "done"
    /\ ctxDone = "none"
    /\ \E k \in {"canceled", "deadline"} : ctxDone' = k
    /\ cancelAt' = [pc |-> pc, calls |-> Len(outcomes), attempt |-> attempt,
                    timer |-> timer]
    /\ UNCHANGED <<retrier, pc, attempt, lastErr, result, timer, outcomes,
                   sleeps, slept>>

\* LoopHead without the select on ctx.Done() before the attempt
LoopHeadNoCtxCheck ==
    /\ pc = "loop"
    /\ IF attempt > retrier.maxRetries
       THEN Return(MaxRetriesExceededError(lastErr))
       ELSE pc' = "call" /\ UNCHANGED result
    /\ UNCHANGED <<retrier, attempt, lastErr, ctxDone, timer, outcomes, sleeps,
                   slept, cancelAt>>

\* for attempt <= r.maxRetries { select { case <-ctx.Done(): return ctx.Err() ...
LoopHead ==
    /\ pc = "loop"
    /\ IF attempt > retrier.maxRetries
       THEN Return(MaxRetriesExceededError(lastErr))
       ELSE IF ctxDone # "none"
            THEN Return(CtxErr(ctxDone))
            ELSE pc' = "call" /\ UNCHANGED result
    /\ UNCHANGED <<retrier, attempt, lastErr, ctxDone, timer, outcomes, sleeps,
                   slept, cancelAt>>

\* AfterCall without the isRetriable check: every error is retried
AfterCallRetryAll(err) ==
    /\ outcomes' = Append(outcomes, err)
    /\ IF err = NilError
       THEN /\ Return(NilError)
            /\ UNCHANGED <<lastErr, timer, sleeps>>
       ELSE /\ lastErr' = err
            /\ IF attempt >= retrier.maxRetries
               THEN /\ Return(MaxRetriesExceededError(err))
                    /\ UNCHANGED <<timer, sleeps>>
               ELSE /\ pc' = "sleep"
                    /\ timer' = calculateBackoff(retrier, attempt)
                    /\ sleeps' = Append(sleeps, calculateBackoff(retrier, attempt))
                    /\ UNCHANGED result
    /\ UNCHANGED <<retrier, attempt, ctxDone, slept, cancelAt>>

\* AfterCall with the last-attempt test off by one: it sleeps after the
\* final attempt too
AfterCallSleepAfterLast(err) ==
    /\ outcomes' = Append(outcomes, err)
    /\ IF err = NilError
       THEN /\ Return(NilError)
            /\ UNCHANGED <<lastErr, timer, sleeps>>
       ELSE /\ lastErr' = err
            /\ IF ~isRetriable(err)
               THEN /\ Return(err)
                    /\ UNCHANGED <<timer, sleeps>>
               ELSE IF attempt > retrier.maxRetries
                    THEN /\ Return(MaxRetriesExceededError(err))
                         /\ UNCHANGED <<timer, sleeps>>
                    ELSE /\ pc' = "sleep"
                         /\ timer' = calculateBackoff(retrier, attempt)
                         /\ sleeps' = Append(sleeps, calculateBackoff(retrier, attempt))
                         /\ UNCHANGED result
    /\ UNCHANGED <<retrier, attempt, ctxDone, slept, cancelAt>>

\* The loop body from the return of fn() to the backoff select
\* (retry: lines 57-86), for err the value fn() returned.
AfterCall(err) ==
    /\ outcomes' = Append(outcomes, err)
    /\ IF err = NilError
       THEN /\ Return(NilError)
            /\ UNCHANGED <<lastErr, timer, sleeps>>
       ELSE /\ lastErr' = err
            /\ IF ~isRetriable(err)
               THEN /\ Return(err)
                    /\ UNCHANGED <<timer, sleeps>>
               ELSE IF attempt >= retrier.maxRetries
                    THEN /\ Return(MaxRetriesExceededError(err))
                         /\ UNCHANGED <<timer, sleeps>>
                    ELSE /\ pc' = "sleep"
                         /\ timer' = calculateBackoff(retrier, attempt)
                         /\ sleeps' = Append(sleeps, calculateBackoff(retrier, attempt))
                         /\ UNCHANGED result
    /\ UNCHANGED <<retrier, attempt, ctxDone, slept, cancelAt>>

\* err := fn() for an arbitrary closure
InvokeFn ==
    /\ pc = "call"
    /\ \E err \in FnErrors : AfterCall(err)

\* one tick of the backoff sleep passes
SleepTick ==
    /\ pc = "sleep"
    /\ timer > 0
    /\ timer' = timer - 1
    /\ slept' = slept + 1
    /\ UNCHANGED <<retrier, pc, attempt, lastErr, result, ctxDone, outcomes,
                   sleeps, cancelAt>>

\* case <-time.After(backoff): continue with the next attempt
TimerFired ==
    /\ pc = "sleep"
    /\ timer = 0
    /\ attempt' = attempt + 1
    /\ pc' = "loop"
    /\ UNCHANGED <<retrier, lastErr, result, ctxDone, timer, outcomes, sleeps,
                   slept, cancelAt>>

\* case <-ctx.Done(): return ctx.Err()   (when the timer is due as well, the
\* select picks either ready case)
SleepCancelled ==
    /\ pc = "sleep"
    /\ ctxDone # "none"
    /\ Return(CtxErr(ctxDone))
    /\ UNCHANGED <<retrier, attempt, lastErr, ctxDone, timer, outcomes, sleeps,
                   slept, cancelAt>>

(***************************************************************************)
(* TokenBucket and RateLimiter (weex/rate_limiter.go)                      *)
(***************************************************************************)
VARIABLES
    limiter,      \* RateLimiter{enabled, ipBucket, uidBucket}
    now,          \* time.Now(), in ticks
    waiters       \* the goroutines polling inside TokenBucket.Wait (a bag)

limiterVars == <<limiter, now, waiters>>

\* NewTokenBucket(capacity, refillInterval) at time t
NewTokenBucket(capacity, refillInterval, t) ==
    [capacity |-> capacity,
     tokens |-> capacity,
     refillRate |-> capacity,
     refillInterval |-> refillInterval,
     lastRefill |-> t]

\* NewRateLimiter(enabled, ipWeight, uidWeight) at time t: both buckets get
\* the 5 * time.Second window (RefillWindow ticks)
NewRateLimiter(enabled, ipWeight, uidWeight, t) ==
    [enabled |-> enabled,
     ipBucket |-> NewTokenBucket(ipWeight, RefillWindow, t),
     uidBucket |-> NewTokenBucket(uidWeight, RefillWindow, t)]

\* refill that tops the bucket up by refillRate instead of resetting it
refillAdding(tb, t) ==
    IF t - tb.lastRefill >= tb.refillInterval
    THEN [tb EXCEPT !.tokens = tb.tokens + tb.refillRate, !.lastRefill = t]
    ELSE tb

\* a smoothed refill: one token per elapsed tick, lastRefill moved each time
refillPartial(tb, t) ==
    IF t - tb.lastRefill >= tb.refillInterval
    THEN [tb EXCEPT !.tokens = tb.capacity, !.lastRefill = t]
    ELSE IF t > tb.lastRefill /\ tb.tokens < tb.capacity
         THEN [tb EXCEPT !.tokens = tb.tokens + 1, !.lastRefill = t]
         ELSE tb

\* a refill that waits for more than the interval to have elapsed
refillLate(tb, t) ==
    IF t - tb.lastRefill > tb.refillInterval
    THEN [tb EXCEPT !.tokens = tb.capacity, !.lastRefill = t]
    ELSE tb

\* TokenBucket.refill at time t (called with the mutex held)
refill(tb, t) ==
    IF t - tb.lastRefill >= tb.refillInterval
    THEN [tb EXCEPT !.tokens = tb.capacity, !.lastRefill = t]
    ELSE tb

\* a Take that keeps one token back: grants only when tokens > n
TakeKeepingOne(tb, n, t) ==
    LET r == refill(tb, t)
    IN IF r.tokens > n
       THEN [ok |-> TRUE, tb |-> [r EXCEPT !.tokens = r.tokens - n]]
       ELSE [ok |-> FALSE, tb |-> r]

\* TokenBucket.Take(n) at time t: Lock; refill; take if tokens >= n; Unlock.
\* The value is the return value and the bucket afterwards.
Take(tb, n, t) ==
    LET r == refill(tb, t)
    IN IF r.tokens >= n
       THEN [ok |-> TRUE, tb |-> [r EXCEPT !.tokens = r.tokens - n]]
       ELSE [ok |-> FALSE, tb |-> r]

\* TokenBucket.Available() at time t: Lock; refill; read; Unlock
Available(tb, t) == [n |-> refill(tb, t).tokens, tb |-> refill(tb, t)]

BucketNames == {"ipBucket", "uidBucket"}

\* the weights callers ask for: zero, within capacity, and beyond it
Weights == 0..(IPWeight + 1)

\* a goroutine inside the polling loop of tb.Wait(ctx, n) on bucket b
Waiter(b, n, ctx) == [b |-> b, n |-> n, ctx |-> ctx]

InitLimiterVars ==
    /\ limiter = NewRateLimiter(TRUE, IPWeight, UIDWeight, 0)
    /\ now = 0
    /\ waiters = EmptyBag

\* the clock advances
Tick ==
    /\ now < MaxNow
    /\ now' = now + 1
    /\ UNCHANGED <<limiter, waiters>>

\* some goroutine: tb.Take(n) on bucket b
TakeCall(b, n) ==
    /\ limiter' = [limiter EXCEPT ![b] = Take(limiter[b], n, now).tb]
    /\ UNCHANGED <<now, waiters>>

\* some goroutine: tb.Available() on bucket b
AvailableCall(b) ==
    /\ limiter' = [limiter EXCEPT ![b] = Available(limiter[b], now).tb]
    /\ UNCHANGED <<now, waiters>>

\* some goroutine enters tb.Wait(ctx, n): the fast path takes at once and
\* returns nil, otherwise the goroutine starts polling on its ticker
WaitCall(b, n) ==
    /\ BagCardinality(waiters) < NumCallers
    /\ LET r == Take(limiter[b], n, now)
       IN /\ limiter' = [limiter EXCEPT ![b] = r.tb]
          /\ IF r.ok
             THEN UNCHANGED waiters
             ELSE waiters' = waiters (+) SetToBag({Waiter(b, n, "none")})
    /\ UNCHANGED now

\* waiter w: case <-ticker.C: if tb.Take(n) { return nil }
WaitPoll(w) ==
    /\ BagIn(w, waiters)
    /\ LET r == Take(limiter[w.b], w.n, now)
       IN /\ limiter' = [limiter EXCEPT ![w.b] = r.tb]
          /\ IF r.ok
             THEN waiters' = waiters (-) SetToBag({w})
             ELSE UNCHANGED waiters
    /\ UNCHANGED now

\* waiter w: case <-ctx.Done(): return ctx.Err()
WaitCtxDone(w) ==
    /\ BagIn(w, waiters)
    /\ w.ctx # "none"
    /\ waiters' = waiters (-) SetToBag({w})
    /\ UNCHANGED <<limiter, now>>

\* the context of waiter w is cancelled
CancelCaller(w) ==
    /\ BagIn(w, waiters)
    /\ w.ctx = "none"
    /\ waiters' = (waiters (-) SetToBag({w})) (+) SetToBag({[w EXCEPT !.ctx = "canceled"]})
    /\ UNCHANGED <<limiter, now>>

(***************************************************************************)
(* TokenBucket.Take step by step: the goroutines sharing one bucket and    *)
(* its sync.Mutex (weex/rate_limiter.go).  The bucket is limiter.ipBucket. *)
(***************************************************************************)
VARIABLES
    mu,           \* tb.mu: "free" or the goroutine holding it
    gor,          \* per goroutine: position in Take/Wait, n, and the call
    grantedSum    \* history: weights granted since the last refill

mutexVars == <<mu, gor, grantedSum>>

Goroutines == {"g1", "g2"}

Idle == [pc |-> "idle", n |-> 0, wait |-> FALSE, ok |-> FALSE]

InitMutexVars ==
    /\ mu = "free"
    /\ gor = [g \in Goroutines |-> Idle]
    /\ grantedSum = 0

\* goroutine g calls tb.Take(n) (wait = FALSE) or tb.Wait(ctx, n)
CallTake(g, n, wait) ==
    /\ gor[g].pc = "idle"
    /\ gor' = [gor EXCEPT ![g] = [pc |-> "lock", n |-> n, wait |-> wait, ok |-> FALSE]]
    /\ UNCHANGED <<mu, grantedSum, limiterVars>>

\* a Lock that does not exclude: the goroutine goes on whoever holds tb.mu
LockNoExclusion(g) ==
    /\ gor[g].pc = "lock"
    /\ mu' = g
    /\ gor' = [gor EXCEPT ![g].pc = "refill"]
    /\ UNCHANGED <<grantedSum, limiterVars>>

\* tb.mu.Lock()
Lock(g) ==
    /\ gor[g].pc = "lock"
    /\ mu = "free"
    /\ mu' = g
    /\ gor' = [gor EXCEPT ![g].pc = "refill"]
    /\ UNCHANGED <<grantedSum, limiterVars>>

\* tb.refill()
Refill(g) ==
    /\ gor[g].pc = "refill"
    /\ limiter' = [limiter EXCEPT !.ipBucket = refill(limiter.ipBucket, now)]
    /\ grantedSum' = IF now - limiter.ipBucket.lastRefill >= limiter.ipBucket.refillInterval
                     THEN 0 ELSE grantedSum
    /\ gor' = [gor EXCEPT ![g].pc = "check"]
    /\ UNCHANGED <<mu, now, waiters>>

\* if tb.tokens >= n
Check(g) ==
    /\ gor[g].pc = "check"
    /\ gor' = [gor EXCEPT ![g].pc = IF limiter.ipBucket.tokens >= gor[g].n
                                    THEN "debit" ELSE "unlock"]
    /\ UNCHANGED <<mu, grantedSum, limiterVars>>

\* tb.tokens -= n; return true
Debit(g) ==
    /\ gor[g].pc = "debit"
    /\ limiter' = [limiter EXCEPT !.ipBucket.tokens = @ - gor[g].n]
    /\ grantedSum' = grantedSum + gor[g].n
    /\ gor' = [gor EXCEPT ![g].pc = "unlock", ![g].ok = TRUE]
    /\ UNCHANGED <<mu, now, waiters>>

\* the deferred tb.mu.Unlock() and the return: Take returns to its caller,
\* Wait returns nil when granted and otherwise waits for its ticker
Unlock(g) ==
    /\ gor[g].pc = "unlock"
    /\ mu' = "free"
    /\ gor' = [gor EXCEPT ![g] = IF gor[g].wait /\ ~gor[g].ok
                                 THEN [@ EXCEPT !.pc = "poll"]
                                 ELSE Idle]
    /\ UNCHANGED <<grantedSum, limiterVars>>

\* Wait: case <-ticker.C: tb.Take(n)
PollTick(g) ==
    /\ gor[g].pc = "poll"
    /\ gor' = [gor EXCEPT ![g].pc = "lock"]
    /\ UNCHANGED <<mu, grantedSum, limiterVars>>

\* Wait: case <-ctx.Done(): return ctx.Err()
PollCancelled(g) ==
    /\ gor[g].pc = "poll"
    /\ gor' = [gor EXCEPT ![g] = Idle]
    /\ UNCHANGED <<mu, grantedSum, limiterVars>>

(***************************************************************************)
(* RequestPipeline (weex/rest/client.go)                                   *)
(***************************************************************************)
VARIABLES
    req,          \* the arguments of DoRequest
    rpc,          \* position of doRequestOnce, "idle" outside the closure
    sent,         \* history: requests handed to httpClient.Do and emitted
    att,          \* history: what the running attempt has done so far
    trace         \* history: per attempt, how doRequestOnce ended

restVars == <<req, rpc, sent, att, trace>>

\* The arguments of DoRequest: the weights, whether building the request
\* succeeds (json.Marshal of body, http.NewRequestWithContext), and whether a
\* result target is passed.
Requests ==
    [ipWeight : {0, 1, IPWeight + 1},
     uidWeight : {0, 1},
     build : {"ok", "marshalFails", "newRequestFails"},
     hasResult : BOOLEAN]

\* An HTTP response as parseResponse sees it: the status code, whether the
\* body unmarshals into APIResponse (wrapped), the envelope fields, whether
\* the envelope carries data and it unmarshals into result, and whether the
\* whole body unmarshals into result (direct).
Response(status, wrapped, code, msg, requestTime, data, direct) ==
    [status |-> status, wrapped |-> wrapped, code |-> code, msg |-> msg,
     requestTime |-> requestTime, data |-> data, direct |-> direct]

Statuses == {200, 400, 429, 500}
EnvelopeCodes == {"", "0", "200", "429", "40007"}

Responses ==
    {Response(st, TRUE, c, m, 0, "ok", "ok") :
        st \in Statuses, c \in EnvelopeCodes, m \in {"", "m"}}
    \cup
    {Response(st, TRUE, "", "", 1, "absent", "ok") : st \in {200, 500}}
    \cup
    {Response(st, TRUE, "0", "", 0, d, "ok") :
        st \in {200, 500}, d \in {"absent", "bad"}}
    \cup
    {Response(st, FALSE, "", "", 0, "absent", d) :
        st \in {200, 500}, d \in {"ok", "bad"}}

NoResponse == Response(0, FALSE, "", "", 0, "absent", "bad")

\* an error of encoding/json
JSONError == ErrorfText("json")

\* Client.parseResponse(statusCode, body, result)
parseResponse(statusCode, body, hasResult) ==
    IF body.wrapped /\ (body.code # "" \/ body.msg # "" \/ body.requestTime # 0)
    THEN LET isSuccess == \/ body.code = "0"
                          \/ body.code = "200"
                          \/ (statusCode >= 200 /\ statusCode < 300)
         IN IF body.code # "" /\ ~isSuccess
            THEN ErrorfText(body.code)
            ELSE IF hasResult /\ body.data = "bad"
                 THEN ErrorfW(JSONError)
                 ELSE NilError
    ELSE IF hasResult /\ body.direct = "bad"
         THEN ErrorfW(JSONError)
         ELSE IF statusCode >= 400
              THEN ErrorfText("HTTP error")
              ELSE NilError

\* The errors httpClient.Do and io.ReadAll return: a *url.Error (or a read
\* error) around a socket error, around the client timeout (which matches
\* context.DeadlineExceeded), or around ctx.Err() once the context is done.
TransportErrors(done) ==
    {ErrorfW(ErrorfText("net.OpError")), ErrorfW(ContextDeadlineExceeded)}
    \cup (IF done = "none" THEN {} ELSE {ErrorfW(CtxErr(done))})

\* What an attempt has done: the tokens its Wait calls took from each
\* bucket, the steps it completed, the instant its admission returned and
\* the instant of the timestamp it signed with (-1: not yet).
NoAttempt ==
    [ipBucket |-> 0, uidBucket |-> 0, steps |-> <<>>, admittedAt |-> 0 - 1,
     timestamp |-> 0 - 1]

\* WaitForCapacity has returned nil at time t
Admitted(a, t) == [a EXCEPT !.steps = Append(@, "admission"), !.admittedAt = t]

InitRestVars ==
    /\ req \in Requests
    /\ rpc = "idle"
    /\ sent = 0
    /\ att = NoAttempt
    /\ trace = <<>>

\* doRequestOnce returns err, having done a: the retrier's loop body goes on
\* from there
ReturnFromOnce(cause, resp, err, a) ==
    /\ rpc' = "idle"
    /\ att' = a
    /\ trace' = Append(trace, [cause |-> cause, resp |-> resp, err |-> err,
                               att |-> a])
    /\ AfterCall(err)

\* a WaitForCapacity that queues on the buckets whether or not rate limiting
\* is enabled
AfterBucketAlwaysEnabled(b) ==
    IF b = "none" /\ req.ipWeight > 0 THEN "ipFast"
    ELSE IF b # "uidBucket" /\ req.uidWeight > 0 THEN "uidFast"
    ELSE "build"

\* a WaitForCapacity that returns once the IP side is acquired
AfterBucketSkipUID(b) ==
    IF b = "none" /\ limiter.enabled /\ req.ipWeight > 0 THEN "ipFast"
    ELSE "build"

\* where doRequestOnce goes once bucket b has granted (b = "none": on entry)
AfterBucket(b) ==
    IF b = "none" /\ limiter.enabled /\ req.ipWeight > 0 THEN "ipFast"
    ELSE IF b # "uidBucket" /\ limiter.enabled /\ req.uidWeight > 0 THEN "uidFast"
    ELSE "build"

BucketOf(at) == IF at \in {"ipFast", "ipPoll"} THEN "ipBucket" ELSE "uidBucket"
WeightOf(at) == IF at \in {"ipFast", "ipPoll"} THEN req.ipWeight ELSE req.uidWeight

\* fn() is called: doRequestOnce enters WaitForCapacity
WaitForCapacity ==
    /\ pc = "call"
    /\ rpc = "idle"
    /\ rpc' = AfterBucket("none")
    /\ att' = IF AfterBucket("none") = "build"
              THEN Admitted(NoAttempt, now) ELSE NoAttempt
    /\ UNCHANGED <<retryVars, limiterVars, req, sent, trace>>

\* bucket.Wait(ctx, weight): the fast-path Take, and each Take on a tick of
\* the 100 ms ticker
WaitTake ==
    /\ pc = "call"
    /\ rpc \in {"ipFast", "ipPoll", "uidFast", "uidPoll"}
    /\ LET b == BucketOf(rpc)
           r == Take(limiter[b], WeightOf(rpc), now)
       IN /\ limiter' = [limiter EXCEPT ![b] = r.tb]
          /\ rpc' = IF r.ok THEN AfterBucket(b)
                    ELSE IF b = "ipBucket" THEN "ipPoll" ELSE "uidPoll"
          /\ att' = IF ~r.ok THEN att
                    ELSE LET a == [att EXCEPT ![b] = @ + WeightOf(rpc)]
                         IN IF AfterBucket(b) = "build"
                            THEN Admitted(a, now) ELSE a
    /\ UNCHANGED <<retryVars, now, waiters, req, sent, trace>>

\* bucket.Wait: case <-ctx.Done(): return ctx.Err(); WaitForCapacity and
\* doRequestOnce wrap it with %w
WaitCancelled ==
    /\ pc = "call"
    /\ rpc \in {"ipPoll", "uidPoll"}
    /\ ctxDone # "none"
    /\ ReturnFromOnce("admission", NoResponse, ErrorfW(ErrorfW(CtxErr(ctxDone))),
                      att)
    /\ UNCHANGED <<limiterVars, req, sent>>

\* json.Marshal(body), http.NewRequestWithContext, the signed headers, and
\* the call of httpClient.Do, which emits the request unless the context is
\* already done
BuildAndSend ==
    /\ pc = "call"
    /\ rpc = "build"
    /\ IF req.build # "ok"
       THEN /\ ReturnFromOnce(req.build, NoResponse,
                              ErrorfW(ErrorfText(req.build)), att)
            /\ UNCHANGED sent
       ELSE LET signed == [att EXCEPT !.steps = Append(@, "sign"),
                                      !.timestamp = now]
            IN IF ctxDone # "none"
               THEN /\ ReturnFromOnce("transport", NoResponse,
                                      ErrorfW(ErrorfW(CtxErr(ctxDone))), signed)
                    /\ UNCHANGED sent
               ELSE /\ rpc' = "do"
                    /\ sent' = sent + 1
                    /\ att' = [signed EXCEPT !.steps = Append(@, "send")]
                    /\ UNCHANGED <<retryVars, trace>>
    /\ UNCHANGED <<limiterVars, req>>

\* httpClient.Do or io.ReadAll fails
TransportFails ==
    /\ pc = "call"
    /\ rpc = "do"
    /\ \E e \in TransportErrors(ctxDone) :
          ReturnFromOnce("transport", NoResponse, ErrorfW(e), att)
    /\ UNCHANGED <<limiterVars, req, sent>>

\* the response is read and handed to parseResponse
Respond ==
    /\ pc = "call"
    /\ rpc = "do"
    /\ \E r \in Responses :
          ReturnFromOnce("response", r, parseResponse(r.status, r, req.hasResult),
                         [att EXCEPT !.steps = @ \o <<"receive", "parse">>])
    /\ UNCHANGED <<limiterVars, req, sent>>

(***************************************************************************)
(* Stream session (weex/websocket/client.go)                               *)
(***************************************************************************)
VARIABLES
    wsState,         \* c.state
    conn,            \* c.conn: 0 is nil, otherwise the socket
    isPrivate,       \* c.isPrivate (with c.auth set)
    reconnectCount,  \* c.reconnectCount
    doneClosed,      \* close(c.done) has run
    writeChan,       \* c.writeChan: the frames queued for the writer
    registry,        \* c.subscriptions: the channels with a handler
    procs,           \* the goroutines: the application and the pumps
    sockets,         \* per socket dialed: "open", "broken" or "closed"
    loginAck,        \* per socket: the server's answer to the login frame
    wire,            \* history, per socket: the frames written to it
    fired,           \* history: how often each callback was started
    calls,           \* history: application calls, ping ticks and socket
                     \* failures so far
    appClosed,       \* history: the application's Close() has returned and
                     \* it has not called Connect() since
    fault            \* a goroutine has panicked

wsVars == <<wsState, conn, isPrivate, appClosed, reconnectCount, doneClosed, writeChan,
            registry, procs, sockets, loginAck, wire, fired, calls, appClosed,
            fault>>

\* ConnectionState
ConnectionStates == {"Disconnected", "Connecting", "Connected", "Reconnecting"}

Channels == {"orders", "fill"}

\* SubscribeRequest, UnsubscribeRequest, PingMessage, AuthRequest after
\* json.Marshal: the op and the channel names of args (the four args of a
\* login frame are credentials, no channel names)
Frame(op, args) == [op |-> op, args |-> args]

\* websocket.FormatCloseMessage(websocket.CloseNormalClosure, "")
CloseFrame == Frame("close", {})

\* conn.WriteMessage on socket s: the frame reaches the wire when the socket
\* is open, an error is returned otherwise.  via tells the caller:
\* writePump ("queue") or any other ("direct")
WriteMessage(s, frame, via) ==
    IF sockets[s] = "open"
    THEN [wire EXCEPT ![s] = Append(@, [frame |-> frame, via |-> via])]
    ELSE wire

App == <<"app", 0>>

\* a goroutine: where it is, the socket it dialed or reads from, and the
\* delay attemptReconnect computed for its time.Sleep
Proc(at, sock) == [pc |-> at, sock |-> sock, delay |-> 0]

\* newClient(config, auth, isPrivate)
newClient(private) ==
    /\ wsState = "Disconnected"
    /\ conn = 0
    /\ isPrivate = private
    /\ reconnectCount = 0
    /\ doneClosed = FALSE
    /\ writeChan = <<>>
    /\ registry = {}
    /\ procs = (App :> Proc("idle", 0))
    /\ sockets = <<>>
    /\ loginAck = <<>>
    /\ wire = <<>>
    /\ fired = [onConnect |-> 0, onDisconnect |-> 0, onError |-> 0]
    /\ calls = 0
    /\ appClosed = FALSE
    /\ fault = FALSE

InitWsVars == \E private \in BOOLEAN : newClient(private)

Running(r) == ~fault /\ r \in DOMAIN procs

\* the goroutine r ends
Exit(r) == [p \in DOMAIN procs \ {r} |-> procs[p]]

\* goroutine r goes on at position at
Goto(r, at) == [procs EXCEPT ![r].pc = at]

\* Connect returns an error to r: the application gets it back, the
\* reconnect handler calls attemptReconnect again
AfterConnectError(r) == Goto(r, IF r = App THEN "idle" ELSE "retry")

\* c.write(data): the cases of its select that can be chosen
WriteOutcomes ==
    (IF Len(writeChan) < QueueCap THEN {"ok"} ELSE {})
    \cup (IF doneClosed THEN {"closed"} ELSE {})
    \cup (IF Len(writeChan) >= QueueCap /\ ~doneClosed THEN {"timeout"} ELSE {})

\* the socket s after conn.Close()
CloseSocket(s) == IF s = 0 THEN sockets ELSE [sockets EXCEPT ![s] = "closed"]

\* Connect, up to the dial: the state gate under c.mu
ConnectGate(r) ==
    /\ Running(r)
    /\ procs[r].pc = IF r = App THEN "idle" ELSE "gate"
    /\ r = App => calls < MaxCalls
    /\ calls' = IF r = App THEN calls + 1 ELSE calls
    /\ appClosed' = IF r = App THEN FALSE ELSE appClosed
    /\ IF wsState \in {"Connected", "Connecting"}
       THEN /\ procs' = AfterConnectError(r)
            /\ UNCHANGED wsState
       ELSE /\ wsState' = "Connecting"
            /\ procs' = Goto(r, "dial")
    /\ UNCHANGED <<conn, isPrivate, reconnectCount, doneClosed, writeChan,
                   registry, sockets, loginAck, wire, fired, fault>>

\* dialer.DialContext fails: setState(StateDisconnected), return the error
DialFails(r) ==
    /\ Running(r)
    /\ procs[r].pc = "dial"
    /\ wsState' = "Disconnected"
    /\ procs' = AfterConnectError(r)
    /\ UNCHANGED <<conn, isPrivate, appClosed, reconnectCount, doneClosed, writeChan,
                   registry, sockets, loginAck, wire, fired, calls, fault>>

\* dialer.DialContext succeeds: c.conn = conn, setState(StateConnected),
\* c.reconnectCount = 0
DialSucceeds(r) ==
    /\ Running(r)
    /\ procs[r].pc = "dial"
    /\ Len(sockets) < MaxDials
    /\ sockets' = Append(sockets, "open")
    /\ loginAck' = Append(loginAck, "none")
    /\ wire' = Append(wire, <<>>)
    /\ conn' = Len(sockets) + 1
    /\ wsState' = "Connected"
    /\ reconnectCount' = 0
    /\ procs' = [procs EXCEPT ![r] = Proc(IF isPrivate THEN "auth" ELSE "spawn",
                                          Len(sockets) + 1)]
    /\ UNCHANGED <<isPrivate, appClosed, doneClosed, writeChan, registry, fired, calls,
                   fault>>

\* c.Close() run by any goroutine: the effect on the session fields
CloseEffect ==
    IF wsState = "Disconnected"
    THEN UNCHANGED <<wsState, conn, doneClosed, sockets, wire, fault>>
    ELSE IF doneClosed
         THEN /\ fault' = TRUE      \* close of closed channel
              /\ UNCHANGED <<wsState, conn, doneClosed, sockets, wire>>
         ELSE /\ doneClosed' = TRUE
              /\ wire' = IF conn = 0 THEN wire
                         ELSE WriteMessage(conn, CloseFrame, "direct")
              /\ sockets' = CloseSocket(conn)
              /\ conn' = 0
              /\ wsState' = "Disconnected"
              /\ UNCHANGED fault

\* c.authenticate(): the login frame is handed to c.write; when write fails
\* Connect closes the session and returns the error
Authenticate(r) ==
    /\ Running(r)
    /\ procs[r].pc = "auth"
    /\ \E o \in WriteOutcomes :
          IF o = "ok"
          THEN /\ writeChan' = Append(writeChan, Frame("login", {}))
               /\ procs' = Goto(r, "spawn")
               /\ UNCHANGED <<wsState, conn, doneClosed, sockets, wire, fault>>
          ELSE /\ CloseEffect
               /\ procs' = AfterConnectError(r)
               /\ UNCHANGED writeChan
    /\ UNCHANGED <<isPrivate, appClosed, reconnectCount, registry, loginAck,
                   fired, calls>>

\* go c.readPump(); go c.writePump(); go c.pingPump(); go c.onConnect();
\* return nil.  The reconnect handler goes on to resubscribe and ends.
StartPumps(r) ==
    /\ Running(r)
    /\ procs[r].pc = "spawn"
    /\ LET s == procs[r].sock
           pumps == (<<"reader", s>> :> Proc("run", 0))
                    @@ (<<"writer", s>> :> Proc("run", 0))
                    @@ (<<"ping", s>> :> Proc("run", 0))
       IN procs' = pumps @@ Goto(r, IF r = App THEN "idle" ELSE "resub")
    /\ fired' = [fired EXCEPT !.onConnect = @ + 1]
    /\ UNCHANGED <<wsState, conn, isPrivate, appClosed, reconnectCount, doneClosed,
                   writeChan, registry, sockets, loginAck, wire, calls, fault>>

\* c.subscriptions.GetChannels(): the channel names, in map order
GetChannels == registry

\* c.resubscribe() after a reconnect, and the end of the goroutine
Resubscribe(r) ==
    /\ Running(r)
    /\ procs[r].pc = "resub"
    /\ IF GetChannels = {}
       THEN UNCHANGED writeChan
       ELSE \E o \in WriteOutcomes :
               writeChan' = IF o = "ok"
                            THEN Append(writeChan, Frame("subscribe", GetChannels))
                            ELSE writeChan
    /\ procs' = Exit(r)
    /\ UNCHANGED <<wsState, conn, isPrivate, appClosed, reconnectCount, doneClosed,
                   registry, sockets, loginAck, wire, fired, calls, fault>>

\* c.handleDisconnect(nil), deferred by readPump and writePump
handleDisconnect(r) ==
    /\ Running(r)
    /\ procs[r].pc = "hd"
    /\ IF wsState = "Disconnected"
       THEN /\ procs' = Exit(r)
            /\ UNCHANGED <<wsState, conn, sockets, fired>>
       ELSE /\ wsState' = "Disconnected"
            /\ sockets' = CloseSocket(conn)
            /\ conn' = 0
            /\ fired' = IF wsState = "Connected"
                        THEN [fired EXCEPT !.onDisconnect = @ + 1] ELSE fired
            /\ procs' = Goto(r, "retry")
    /\ UNCHANGED <<isPrivate, appClosed, reconnectCount, doneClosed, writeChan, registry,
                   loginAck, wire, calls, fault>>

\* delay := c.reconnectDelay * time.Duration(count), at most 30 s
ReconnectBackoff(count) ==
    IF ReconnectDelay * count > DelayCap THEN DelayCap ELSE ReconnectDelay * count

\* c.attemptReconnect(), up to time.Sleep(delay)
attemptReconnect(r) ==
    /\ Running(r)
    /\ procs[r].pc = "retry"
    /\ IF reconnectCount >= MaxReconnect
       THEN /\ procs' = Exit(r)
            /\ UNCHANGED reconnectCount
       ELSE /\ reconnectCount' = reconnectCount + 1
            /\ procs' = [procs EXCEPT ![r].pc = "backoff",
                                      ![r].delay = ReconnectBackoff(reconnectCount + 1)]
    /\ UNCHANGED <<wsState, conn, isPrivate, appClosed, doneClosed, writeChan, registry,
                   sockets, loginAck, wire, fired, calls, fault>>

\* time.Sleep(delay) returns: c.Connect(ctx) is called
BackoffDone(r) ==
    /\ Running(r)
    /\ procs[r].pc = "backoff"
    /\ procs' = [procs EXCEPT ![r].pc = "gate", ![r].delay = 0]
    /\ UNCHANGED <<wsState, conn, isPrivate, appClosed, reconnectCount, doneClosed,
                   writeChan, registry, sockets, loginAck, wire, fired, calls,
                   fault>>

IsPump(r, kind) == r[1] = kind

\* readPump from its start ("run"), or from the head of its loop after a
\* message ("loop"), to the next read: at the start c.conn.SetReadDeadline
\* (on a nil c.conn: nil pointer dereference); then return when c.done is
\* closed, otherwise call c.conn.ReadMessage() (nil c.conn: the same)
ReaderLoop(r) ==
    /\ Running(r)
    /\ IsPump(r, "reader")
    /\ procs[r].pc \in {"run", "loop"}
    /\ IF procs[r].pc = "run" /\ conn = 0
       THEN fault' = TRUE /\ UNCHANGED procs
       ELSE IF doneClosed
            THEN procs' = Goto(r, "hd") /\ UNCHANGED fault
            ELSE IF conn = 0
                 THEN fault' = TRUE /\ UNCHANGED procs
                 ELSE /\ procs' = [procs EXCEPT ![r] = Proc("read", conn)]
                      /\ UNCHANGED fault
    /\ UNCHANGED <<wsState, conn, isPrivate, appClosed, reconnectCount, doneClosed,
                   writeChan, registry, sockets, loginAck, wire, fired, calls>>

\* c.conn.ReadMessage() returns an error (read error, close frame, read
\* deadline, or the socket was closed): readPump returns
ReadError(r) ==
    /\ Running(r)
    /\ IsPump(r, "reader")
    /\ procs[r].pc = "read"
    /\ sockets[procs[r].sock] # "open"
    /\ procs' = Goto(r, "hd")
    /\ UNCHANGED <<wsState, conn, isPrivate, appClosed, reconnectCount, doneClosed,
                   writeChan, registry, sockets, loginAck, wire, fired, calls,
                   fault>>

\* writePump: case <-c.done: return
WriterDone(r) ==
    /\ Running(r)
    /\ IsPump(r, "writer")
    /\ procs[r].pc = "run"
    /\ doneClosed
    /\ procs' = Goto(r, "hd")
    /\ UNCHANGED <<wsState, conn, isPrivate, appClosed, reconnectCount, doneClosed,
                   writeChan, registry, sockets, loginAck, wire, fired, calls,
                   fault>>

\* writePump: case message := <-c.writeChan: c.conn.WriteMessage(message)
\* (on a nil c.conn: nil pointer dereference); an error ends the pump
WriterWrites(r) ==
    /\ Running(r)
    /\ IsPump(r, "writer")
    /\ procs[r].pc = "run"
    /\ writeChan # <<>>
    /\ writeChan' = Tail(writeChan)
    /\ IF conn = 0
       THEN fault' = TRUE /\ UNCHANGED <<procs, wire>>
       ELSE IF sockets[conn] # "open"
            THEN procs' = Goto(r, "hd") /\ UNCHANGED <<wire, fault>>
            ELSE /\ wire' = WriteMessage(conn, Head(writeChan), "queue")
                 /\ UNCHANGED <<procs, fault>>
    /\ UNCHANGED <<wsState, conn, isPrivate, appClosed, reconnectCount, doneClosed,
                   registry, sockets, loginAck, fired, calls>>

\* pingPump: case <-c.done: return
PingDone(r) ==
    /\ Running(r)
    /\ IsPump(r, "ping")
    /\ doneClosed
    /\ procs' = Exit(r)
    /\ UNCHANGED <<wsState, conn, isPrivate, appClosed, reconnectCount, doneClosed,
                   writeChan, registry, sockets, loginAck, wire, fired, calls,
                   fault>>

\* pingPump: case <-ticker.C: c.write(ping); an error ends the pump
PingTick(r) ==
    /\ Running(r)
    /\ IsPump(r, "ping")
    /\ calls < MaxCalls
    /\ calls' = calls + 1
    /\ \E o \in WriteOutcomes :
          IF o = "ok"
          THEN writeChan' = Append(writeChan, Frame("ping", {})) /\ UNCHANGED procs
          ELSE procs' = Exit(r) /\ UNCHANGED writeChan
    /\ UNCHANGED <<wsState, conn, isPrivate, appClosed, reconnectCount, doneClosed,
                   registry, sockets, loginAck, wire, fired, fault>>

\* the application calls c.Close()
Close ==
    /\ Running(App)
    /\ procs[App].pc = "idle"
    /\ calls < MaxCalls
    /\ calls' = calls + 1
    /\ CloseEffect
    /\ appClosed' = ~fault'
    /\ UNCHANGED <<isPrivate, reconnectCount, writeChan, registry, procs,
                   loginAck, fired>>

\* the application calls c.Subscribe(channel, handler)
Subscribe(channel) ==
    /\ Running(App)
    /\ procs[App].pc = "idle"
    /\ calls < MaxCalls
    /\ calls' = calls + 1
    /\ IF wsState # "Connected"
       THEN UNCHANGED <<registry, writeChan>>
       ELSE \E o \in WriteOutcomes :
               IF o = "ok"
               THEN /\ registry' = registry \cup {channel}
                    /\ writeChan' = Append(writeChan, Frame("subscribe", {channel}))
               ELSE /\ registry' = registry \ {channel}
                    /\ UNCHANGED writeChan
    /\ UNCHANGED <<wsState, conn, isPrivate, appClosed, reconnectCount, doneClosed, procs,
                   sockets, loginAck, wire, fired, fault>>

\* the application calls c.Unsubscribe(channel)
Unsubscribe(channel) ==
    /\ Running(App)
    /\ procs[App].pc = "idle"
    /\ calls < MaxCalls
    /\ calls' = calls + 1
    /\ IF wsState # "Connected"
       THEN UNCHANGED <<registry, writeChan>>
       ELSE /\ registry' = registry \ {channel}
            /\ \E o \in WriteOutcomes :
                  writeChan' = IF o = "ok"
                               THEN Append(writeChan, Frame("unsubscribe", {channel}))
                               ELSE writeChan
    /\ UNCHANGED <<wsState, conn, isPrivate, appClosed, reconnectCount,
                   doneClosed, procs, sockets, loginAck, wire, fired, fault>>

\* the network or the server ends socket s: read or write error, close frame
SocketFails(s) ==
    /\ ~fault
    /\ sockets[s] = "open"
    /\ calls < MaxCalls
    /\ calls' = calls + 1
    /\ sockets' = [sockets EXCEPT ![s] = "broken"]
    /\ UNCHANGED <<wsState, conn, isPrivate, appClosed, reconnectCount, doneClosed,
                   writeChan, registry, procs, loginAck, wire, fired, fault>>

\* the server answers the login frame it received on socket s
ServerLoginAck(s, answer) ==
    /\ ~fault
    /\ sockets[s] = "open"
    /\ loginAck[s] = "none"
    /\ \E i \in 1..Len(wire[s]) : wire[s][i].frame.op = "login"
    /\ loginAck' = [loginAck EXCEPT ![s] = answer]
    /\ UNCHANGED <<wsState, conn, isPrivate, appClosed, reconnectCount, doneClosed,
                   writeChan, registry, procs, sockets, wire, fired, calls,
                   fault>>

(***************************************************************************)
(* Message router (Client.handleMessage, weex/websocket/client.go)         *)
(***************************************************************************)
VARIABLES
    routed       \* history: per frame read, what handleMessage did with it

routerVars == <<routed>>

\* An inbound frame: json tells whether json.Unmarshal into BaseMessage
\* accepts it, the other fields are those of BaseMessage
BaseMessage(event, channel, code, msg) ==
    [json |-> TRUE, event |-> event, channel |-> channel, code |-> code,
     msg |-> msg]

Unparsable ==
    [json |-> FALSE, event |-> "", channel |-> "", code |-> "", msg |-> ""]

\* the frames the server sends: heartbeat replies, acknowledgements with and
\* without a code, errors, login answers, and data frames
Inbound ==
    {BaseMessage("pong", ch, "", "") : ch \in {"", "orders"}}
    \cup {BaseMessage(ev, "orders", c, "denied") :
             ev \in {"subscribe", "unsubscribe"}, c \in {"", "0", "200", "40001"}}
    \cup {BaseMessage("error", ch, c, "denied") :
             ch \in {"", "orders"}, c \in {"", "40001"}}
    \cup {BaseMessage(ev, ch, "", "") :
             ev \in {"", "login"}, ch \in Channels \cup {""}}
    \cup {Unparsable}

\* what a MessageHandler can do with a frame
HandlerResults == {"nil", "error", "panic"}

\* the outcome of handleMessage: the error handed to c.onError (<<>> when it
\* is not called), the channel whose handler is called ("" when none is), and
\* the bytes the handler gets
Routed(onError, handler, raw) ==
    [onError |-> onError, handler |-> handler, raw |-> raw]

\* fmt.Errorf(format, base.Message): the text before the colon and the
\* message of the frame
Errorf(text, msg) == <<text, msg>>

\* Client.handleMessage, up to the call of the handler (c.onError is set)
handleMessage(message) ==
    IF ~message.json THEN Routed(<<>>, "", <<>>)
    ELSE IF message.event = "pong" THEN Routed(<<>>, "", <<>>)
    ELSE IF message.event \in {"subscribe", "unsubscribe"}
    THEN IF message.code # "" /\ message.code # "0"
         THEN Routed(Errorf("subscription error", message.msg), "", <<>>)
         ELSE Routed(<<>>, "", <<>>)
    ELSE IF message.event = "error"
    THEN Routed(Errorf("websocket error", message.msg), "", <<>>)
    ELSE IF message.channel # "" /\ message.channel \in registry
    THEN Routed(<<>>, message.channel, <<message>>)
    ELSE Routed(<<>>, "", <<>>)

\* readPump: c.conn.ReadMessage() returns a frame, c.handleMessage(message)
\* runs inline; a handler's error is logged, a handler's panic is not
\* recovered and ends the process
ReadMessage(r, message) ==
    /\ Running(r)
    /\ IsPump(r, "reader")
    /\ procs[r].pc = "read"
    /\ sockets[procs[r].sock] = "open"
    /\ Len(routed) < MaxFrames
    /\ LET out == handleMessage(message)
       IN \E res \in (IF out.handler = "" THEN {"none"} ELSE HandlerResults) :
             /\ routed' = Append(routed, [message |-> message, out |-> out,
                                          result |-> res])
             /\ fired' = IF out.onError # <<>>
                         THEN [fired EXCEPT !.onError = @ + 1] ELSE fired
             /\ IF res = "panic"
                THEN fault' = TRUE /\ UNCHANGED procs
                ELSE procs' = Goto(r, "loop") /\ UNCHANGED fault
    /\ UNCHANGED <<wsState, conn, isPrivate, appClosed, reconnectCount,
                   doneClosed, writeChan, registry, sockets, loginAck, wire,
                   calls>>

(***************************************************************************)
(* Callers of GetErrorCategory (unnamed/part_000)                          *)
(***************************************************************************)
VARIABLES
    code,        \* the code string handed to GetErrorCategory
    category     \* what the call returned, NilCategory before it returns

errVars == <<code, category>>

\* code strings outside ErrorCodeMap: success codes, HTTP statuses, the
\* neighbours of the table's ranges, and table codes with other spelling
OtherCodes ==
    {"", "0", "200", "400", "401", "403", "404", "500", "40000", "40015 ",
     "40016", "40021", "40023", "40752", "40754", "50011", "4001", "0429",
     "429 ", "+429", "40001.0", "ABC", "-1", "49999"}

CodeStrings == DOMAIN ErrorCodeMap \cup OtherCodes

InitErrVars ==
    /\ code \in CodeStrings
    /\ category = NilCategory

\* cat := GetErrorCategory(code)
GetErrorCategoryCall ==
    /\ category = NilCategory
    /\ category' = GetErrorCategory(code)
    /\ UNCHANGED code

\* the caller goes on to its next code
NextCode(c) ==
    /\ category # NilCategory
    /\ code' = c
    /\ category' = NilCategory

(***************************************************************************)
(* Heartbeat (weex/websocket/client.go): the read deadline of readPump,    *)
(* the ticker of pingPump and the server's replies, on one connection      *)
(***************************************************************************)
VARIABLES
    clock,         \* time.Now(), in ticks of 15 s
    readDeadline,  \* the read deadline set on c.conn, 0 before it is set
    nextPing,      \* when the ticker of pingPump fires next
    arrived,       \* the frames that reached the socket and are not read yet
    pings          \* history: per ping written, its time and its reply's (-1: none)

hbVars == <<clock, readDeadline, nextPing, arrived, pings>>

\* the server's reply to {"op":"ping"}: the text frame {"event":"pong"}
TextPong == [kind |-> "text", message |-> BaseMessage("pong", "", "", "")]

\* a pong control frame of the WebSocket protocol (opcode 10)
ControlPong == [kind |-> "pong", message |-> Unparsable]

\* the session when Connect has returned at time 0: the ticker is created
\* when pingPump starts
InitHbVars ==
    /\ clock = 0
    /\ readDeadline = 0
    /\ nextPing = PingInterval
    /\ arrived = <<>>
    /\ pings = <<>>

\* time passes, unless the ticker or an expired read deadline is due
HbTick ==
    /\ ~fault
    /\ clock < MaxClock
    /\ clock < nextPing
    /\ \A r \in DOMAIN procs :
          (IsPump(r, "reader") /\ procs[r].pc = "read") => clock < readDeadline
    /\ clock' = clock + 1
    /\ UNCHANGED <<readDeadline, nextPing, arrived, pings>>

\* readPump up to ReadMessage: at its start
\* c.conn.SetReadDeadline(time.Now().Add(c.pongWait)) and SetPongHandler
HbReaderLoop(r) ==
    /\ ReaderLoop(r)
    /\ readDeadline' = IF procs[r].pc = "run" /\ conn # 0
                       THEN clock + PongWait ELSE readDeadline
    /\ UNCHANGED <<clock, nextPing, arrived, pings>>

\* pingPump: case <-ticker.C
HbPingTick(r) ==
    /\ clock >= nextPing
    /\ PingTick(r)
    /\ nextPing' = nextPing + PingInterval
    /\ UNCHANGED <<clock, readDeadline, arrived, pings>>

\* writePump writes the next queued frame; a ping frame that reaches the
\* wire is noted with its time
HbWriterWrites(r) ==
    /\ WriterWrites(r)
    /\ pings' = IF Head(writeChan).op = "ping" /\ wire' # wire
                THEN Append(pings, [sentAt |-> clock, pongAt |-> 0 - 1])
                ELSE pings
    /\ UNCHANGED <<clock, readDeadline, nextPing, arrived>>

\* the server answers the oldest unanswered ping with {"event":"pong"}
ServerPong ==
    /\ ~fault
    /\ Len(arrived) < MaxFrames
    /\ \E i \in DOMAIN pings :
          /\ pings[i].pongAt = 0 - 1
          /\ \A j \in 1..(i - 1) : pings[j].pongAt # 0 - 1
          /\ pings' = [pings EXCEPT ![i].pongAt = clock]
    /\ arrived' = Append(arrived, TextPong)
    /\ UNCHANGED <<clock, readDeadline, nextPing>>

\* the server sends a pong control frame (unsolicited: the client sends no
\* ping control frames)
ServerControlPong ==
    /\ ~fault
    /\ Len(arrived) < MaxFrames
    /\ arrived' = Append(arrived, ControlPong)
    /\ UNCHANGED <<clock, readDeadline, nextPing, pings>>

\* c.conn.ReadMessage() returns the next text frame before the deadline and
\* handleMessage runs: the deadline stays as it is
HbReadMessage(r) ==
    /\ arrived # <<>>
    /\ Head(arrived).kind = "text"
    /\ clock < readDeadline
    /\ ReadMessage(r, Head(arrived).message)
    /\ arrived' = Tail(arrived)
    /\ UNCHANGED <<clock, readDeadline, nextPing, pings>>

\* inside c.conn.ReadMessage() a pong control frame runs the pong handler:
\* c.conn.SetReadDeadline(time.Now().Add(c.pongWait)); ReadMessage goes on
PongHandler(r) ==
    /\ Running(r)
    /\ IsPump(r, "reader")
    /\ procs[r].pc = "read"
    /\ arrived # <<>>
    /\ sockets[procs[r].sock] = "open"
    /\ Head(arrived).kind = "pong"
    /\ clock < readDeadline
    /\ readDeadline' = clock + PongWait
    /\ arrived' = Tail(arrived)
    /\ UNCHANGED <<clock, nextPing, pings>>

\* the read deadline has passed: c.conn.ReadMessage() returns a timeout
\* error and readPump returns
ReadTimeout(r) ==
    /\ Running(r)
    /\ IsPump(r, "reader")
    /\ procs[r].pc = "read"
    /\ sockets[procs[r].sock] = "open"
    /\ clock >= readDeadline
    /\ procs' = Goto(r, "hd")
    /\ UNCHANGED <<wsState, conn, isPrivate, appClosed, reconnectCount, doneClosed,
                   writeChan, registry, sockets, loginAck, wire, fired, calls,
                   fault>>
    /\ UNCHANGED hbVars

(***************************************************************************)
(* The state field and c.mu (weex/websocket/client.go): Connect, Close,    *)
(* handleDisconnect, attemptReconnect, GetState and IsConnected on a       *)
(* public session, each Lock, Unlock and statement between them a step     *)
(***************************************************************************)
VARIABLES
    cMu,         \* c.mu: the goroutine holding Lock, those holding RLock
    thr,         \* per goroutine: the statement it is at, the socket it
                 \* dialed, the state its last GetState/IsConnected read
    accesses     \* history: the reads and writes of c.state so far, each with
                 \* its source line and whether the goroutine held c.mu

lockVars == <<cMu, thr, accesses>>

\* the application, a pump returning into handleDisconnect, an observer
Threads == {"app", "pump", "obs"}

ThrIdle == [pc |-> "idle", sock |-> 0, seen |-> ""]

InitLockVars ==
    /\ cMu = [writer |-> "none", readers |-> {}]
    /\ thr = [t \in Threads |-> ThrIdle]
    /\ accesses = {}

Holds(t) == cMu.writer = t \/ t \in cMu.readers

\* goroutine t reads or writes c.state at the given source line
Access(t, line, kind) == [line |-> line, kind |-> kind, locked |-> Holds(t)]

At(t, at) == ~fault /\ thr[t].pc = at

Step(t, at) == [thr EXCEPT ![t].pc = at]

\* the application calls c.Connect(ctx) or c.Close()
AppCalls(op) ==
    /\ At("app", "idle")
    /\ calls < MaxCalls
    /\ calls' = calls + 1
    /\ thr' = Step("app", IF op = "Connect" THEN "Connect.lock" ELSE "Close.lock")
    /\ UNCHANGED <<cMu, accesses, wsState, conn, reconnectCount, doneClosed, sockets,
                   loginAck, wire, fired, appClosed, fault>>

\* readPump or writePump of a connection returns: defer c.handleDisconnect(nil)
PumpReturns ==
    /\ At("pump", "idle")
    /\ sockets # <<>>
    /\ calls < MaxCalls
    /\ calls' = calls + 1
    /\ thr' = Step("pump", "hd.lock")
    /\ UNCHANGED <<cMu, accesses, wsState, conn, reconnectCount, doneClosed, sockets,
                   loginAck, wire, fired, appClosed, fault>>

\* another goroutine calls c.GetState() or c.IsConnected()
ObserverCalls ==
    /\ At("obs", "idle")
    /\ thr' = Step("obs", "Get.rlock")
    /\ UNCHANGED <<cMu, accesses, wsState, conn, reconnectCount, doneClosed, sockets,
                   loginAck, wire, fired, calls, appClosed, fault>>

\* where each c.mu.Lock() leads
LockAt ==
    ("Connect.lock" :> "Connect.gate") @@ ("Connect.lock2" :> "Connect.set")
    @@ ("Close.lock" :> "Close.body") @@ ("hd.lock" :> "hd.body")
    @@ ("ar.lock" :> "ar.body")

\* c.mu.Lock()
MuLock(t) ==
    /\ ~fault
    /\ thr[t].pc \in DOMAIN LockAt
    /\ cMu.writer = "none"
    /\ cMu.readers = {}
    /\ cMu' = [cMu EXCEPT !.writer = t]
    /\ thr' = Step(t, LockAt[thr[t].pc])
    /\ UNCHANGED <<accesses, wsState, conn, reconnectCount, doneClosed, sockets,
                   loginAck, wire, fired, calls, appClosed, fault>>

\* c.mu.RLock()
MuRLock(t) ==
    /\ At(t, "Get.rlock")
    /\ cMu.writer = "none"
    /\ cMu' = [cMu EXCEPT !.readers = @ \cup {t}]
    /\ thr' = Step(t, "Get.read")
    /\ UNCHANGED <<accesses, wsState, conn, reconnectCount, doneClosed, sockets,
                   loginAck, wire, fired, calls, appClosed, fault>>

\* Connect returned an error to t: the application has it, attemptReconnect
\* calls itself again
ConnectErrorTo(t) == IF t = "app" THEN "idle" ELSE "ar.lock"

\* where t goes on after each c.mu.Unlock() / RUnlock()
UnlockAt(t) ==
    ("Connect.unlockErr" :> ConnectErrorTo(t)) @@ ("Connect.unlock" :> "Connect.dial")
    @@ ("Connect.unlock2" :> "Connect.spawn") @@ ("Close.unlock" :> "idle")
    @@ ("hd.unlockRet" :> "idle") @@ ("hd.unlock" :> "ar.lock")
    @@ ("ar.unlockRet" :> "idle") @@ ("ar.unlock" :> "Connect.lock")
    @@ ("Get.runlock" :> "idle")

\* c.mu.Unlock() / c.mu.RUnlock()
MuUnlock(t) ==
    /\ ~fault
    /\ thr[t].pc \in DOMAIN UnlockAt(t)
    /\ cMu' = [writer |-> IF cMu.writer = t THEN "none" ELSE cMu.writer,
               readers |-> cMu.readers \ {t}]
    /\ thr' = Step(t, UnlockAt(t)[thr[t].pc])
    /\ UNCHANGED <<accesses, wsState, conn, reconnectCount, doneClosed, sockets,
                   loginAck, wire, fired, calls, appClosed, fault>>

\* Connect: if c.state == StateConnected || c.state == StateConnecting
\* { return error }; c.setState(StateConnecting)
ConnectGateStep(t) ==
    /\ At(t, "Connect.gate")
    /\ IF wsState \in {"Connected", "Connecting"}
       THEN /\ accesses' = accesses \cup {Access(t, 104, "read")}
            /\ thr' = Step(t, "Connect.unlockErr")
            /\ UNCHANGED wsState
       ELSE /\ accesses' = accesses \cup {Access(t, 104, "read"), Access(t, 108, "write")}
            /\ wsState' = "Connecting"
            /\ thr' = Step(t, "Connect.unlock")
    /\ UNCHANGED <<cMu, conn, reconnectCount, doneClosed, sockets, loginAck, wire,
                   fired, calls, appClosed, fault>>

\* conn, _, err := dialer.DialContext(ctx, c.url, nil)
DialStep(t) ==
    /\ At(t, "Connect.dial")
    /\ \/ /\ thr' = Step(t, "Connect.failed")
          /\ UNCHANGED <<sockets, loginAck, wire>>
       \/ /\ Len(sockets) < MaxDials
          /\ sockets' = Append(sockets, "open")
          /\ loginAck' = Append(loginAck, "none")
          /\ wire' = Append(wire, <<>>)
          /\ thr' = [thr EXCEPT ![t].pc = "Connect.lock2", ![t].sock = Len(sockets) + 1]
    /\ UNCHANGED <<cMu, accesses, wsState, conn, reconnectCount, doneClosed, fired,
                   calls, appClosed, fault>>

\* if err != nil { c.setState(StateDisconnected); return error }
DialFailedStep(t) ==
    /\ At(t, "Connect.failed")
    /\ accesses' = accesses \cup {Access(t, 121, "write")}
    /\ wsState' = "Disconnected"
    /\ thr' = Step(t, ConnectErrorTo(t))
    /\ UNCHANGED <<cMu, conn, reconnectCount, doneClosed, sockets, loginAck, wire,
                   fired, calls, appClosed, fault>>

\* c.conn = conn; c.setState(StateConnected); c.reconnectCount = 0
ConnectedStep(t) ==
    /\ At(t, "Connect.set")
    /\ accesses' = accesses \cup {Access(t, 127, "write")}
    /\ conn' = thr[t].sock
    /\ wsState' = "Connected"
    /\ reconnectCount' = 0
    /\ thr' = Step(t, "Connect.unlock2")
    /\ UNCHANGED <<cMu, doneClosed, sockets, loginAck, wire, fired, calls, appClosed,
                   fault>>

\* the pumps and onConnect are started, Connect returns nil (and the
\* reconnect handler finishes with resubscribe)
SpawnStep(t) ==
    /\ At(t, "Connect.spawn")
    /\ fired' = [fired EXCEPT !.onConnect = @ + 1]
    /\ thr' = Step(t, "idle")
    /\ UNCHANGED <<cMu, accesses, wsState, conn, reconnectCount, doneClosed, sockets,
                   loginAck, wire, calls, appClosed, fault>>

\* the body of Close between Lock and the deferred Unlock
CloseStep(t) ==
    /\ At(t, "Close.body")
    /\ CloseEffect
    /\ accesses' = accesses \cup {Access(t, 160, "read")}
                   \cup (IF wsState # "Disconnected" /\ ~doneClosed
                         THEN {Access(t, 175, "write")} ELSE {})
    /\ appClosed' = ~fault'
    /\ thr' = Step(t, "Close.unlock")
    /\ UNCHANGED <<cMu, reconnectCount, loginAck, fired, calls>>

\* the body of handleDisconnect between Lock and Unlock
DisconnectStep(t) ==
    /\ At(t, "hd.body")
    /\ IF wsState = "Disconnected"
       THEN /\ accesses' = accesses \cup {Access(t, 392, "read")}
            /\ thr' = Step(t, "hd.unlockRet")
            /\ UNCHANGED <<wsState, conn, sockets, fired>>
       ELSE /\ accesses' = accesses \cup {Access(t, 392, "read"), Access(t, 397, "read"),
                                          Access(t, 398, "write")}
            /\ wsState' = "Disconnected"
            /\ sockets' = CloseSocket(conn)
            /\ conn' = 0
            /\ fired' = IF wsState = "Connected"
                        THEN [fired EXCEPT !.onDisconnect = @ + 1] ELSE fired
            /\ thr' = Step(t, "hd.unlock")
    /\ UNCHANGED <<cMu, reconnectCount, doneClosed, loginAck, wire, calls, appClosed,
                   fault>>

\* the body of attemptReconnect between Lock and Unlock
ReconnectStep(t) ==
    /\ At(t, "ar.body")
    /\ IF reconnectCount >= MaxReconnect
       THEN /\ thr' = Step(t, "ar.unlockRet")
            /\ UNCHANGED reconnectCount
       ELSE /\ reconnectCount' = reconnectCount + 1
            /\ thr' = Step(t, "ar.unlock")
    /\ UNCHANGED <<cMu, accesses, wsState, conn, doneClosed, sockets, loginAck, wire,
                   fired, calls, appClosed, fault>>

\* GetState: return c.state; IsConnected: return c.state == StateConnected
ReadStateStep(t) ==
    /\ At(t, "Get.read")
    /\ accesses' = accesses \cup {Access(t, 490, "read")}
    /\ thr' = [thr EXCEPT ![t].pc = "Get.runlock", ![t].seen = wsState]
    /\ UNCHANGED <<cMu, wsState, conn, reconnectCount, doneClosed, sockets, loginAck,
                   wire, fired, calls, appClosed, fault>>

(***************************************************************************)
(* SubscriptionManager (weex/websocket/types.go): goroutines calling its   *)
(* methods on one manager, each Lock/RLock, body and unlock a step         *)
(***************************************************************************)
VARIABLES
    subscriptions,   \* sm.subscriptions: the Subscription entries of the map
    smMu,            \* sm.mu: the goroutine holding Lock, those holding RLock
    smCalls          \* per goroutine: the method it is in, position, result

smVars == <<subscriptions, smMu, smCalls>>

Handlers == {"h1", "h2"}

\* &Subscription{Channel: channel, Handler: handler}
Subscription(channel, handler) == [Channel |-> channel, Handler |-> handler]

NoSubscription == Subscription("", "nil")

\* the keys of a map
Keys(subs) == {s.Channel : s \in subs}

\* map[channel]: the entry and whether the key is present
Lookup(subs, channel) ==
    IF channel \in Keys(subs)
    THEN [sub |-> CHOOSE s \in subs : s.Channel = channel, exists |-> TRUE]
    ELSE [sub |-> NoSubscription, exists |-> FALSE]

\* a map assignment that keeps the entry the key had before
StoreKeepingOld(subs, channel, handler) == subs \cup {Subscription(channel, handler)}

\* sm.subscriptions[channel] = &Subscription{...}: the key's entry is replaced
Store(subs, channel, handler) ==
    {s \in subs : s.Channel # channel} \cup {Subscription(channel, handler)}

\* delete(sm.subscriptions, channel)
Delete(subs, channel) == {s \in subs : s.Channel # channel}

\* the slices a range over the keys of a map can build: every key once, in
\* any order
KeyOrders(subs) ==
    {q \in UNION {[1..n -> Keys(subs)] : n \in {Cardinality(Keys(subs))}} :
        \A i, j \in DOMAIN q : i # j => q[i] # q[j]}

Methods == {"Add", "Remove", "Clear", "Get", "GetChannels", "Count", "Exists"}

\* the methods that take sm.mu.Lock(); the others take sm.mu.RLock()
Writers == {"Add", "Remove", "Clear"}

NoResult == [sub |-> NoSubscription, exists |-> FALSE, channels |-> <<>>, count |-> 0]

SmIdle == [pc |-> "idle", op |-> "", channel |-> "", handler |-> "nil", ret |-> NoResult]

\* NewSubscriptionManager()
InitSmVars ==
    /\ subscriptions = {}
    /\ smMu = [writer |-> "none", readers |-> {}]
    /\ smCalls = [g \in Goroutines |-> SmIdle]

\* goroutine g calls method op with its arguments
SmCall(g, op, channel, handler) ==
    /\ smCalls[g].pc = "idle"
    /\ smCalls' = [smCalls EXCEPT ![g] = [SmIdle EXCEPT !.pc = "lock", !.op = op,
                                                       !.channel = channel,
                                                       !.handler = handler]]
    /\ UNCHANGED <<subscriptions, smMu>>

\* sm.mu.Lock() / sm.mu.RLock()
SmLock(g) ==
    /\ smCalls[g].pc = "lock"
    /\ smMu.writer = "none"
    /\ IF smCalls[g].op \in Writers
       THEN /\ smMu.readers = {}
            /\ smMu' = [smMu EXCEPT !.writer = g]
       ELSE smMu' = [smMu EXCEPT !.readers = @ \cup {g}]
    /\ smCalls' = [smCalls EXCEPT ![g].pc = "body"]
    /\ UNCHANGED subscriptions

\* the body of the method, run with the lock held
SmBody(g) ==
    LET c == smCalls[g]
    IN /\ c.pc = "body"
       /\ subscriptions' =
            CASE c.op = "Add" -> Store(subscriptions, c.channel, c.handler)
              [] c.op = "Remove" -> Delete(subscriptions, c.channel)
              [] c.op = "Clear" -> {}
              [] OTHER -> subscriptions
       /\ \E order \in KeyOrders(subscriptions) :
            smCalls' = [smCalls EXCEPT
                ![g].pc = "unlock",
                ![g].ret =
                    CASE c.op = "Get" ->
                            [NoResult EXCEPT !.sub = Lookup(subscriptions, c.channel).sub,
                                             !.exists = Lookup(subscriptions, c.channel).exists]
                      [] c.op = "Exists" ->
                            [NoResult EXCEPT !.exists = Lookup(subscriptions, c.channel).exists]
                      [] c.op = "GetChannels" -> [NoResult EXCEPT !.channels = order]
                      [] c.op = "Count" ->
                            [NoResult EXCEPT !.count = Cardinality(Keys(subscriptions))]
                      [] OTHER -> NoResult]
       /\ UNCHANGED smMu

\* defer sm.mu.Unlock() / sm.mu.RUnlock(), and the method returns
SmUnlock(g) ==
    /\ smCalls[g].pc = "unlock"
    /\ smMu' = IF smCalls[g].op \in Writers
               THEN [smMu EXCEPT !.writer = "none"]
               ELSE [smMu EXCEPT !.readers = @ \ {g}]
    /\ smCalls' = [smCalls EXCEPT ![g].pc = "idle"]
    /\ UNCHANGED subscriptions

(***************************************************************************)
(* RateLimiter.TryAcquire (weex/rate_limiter.go)                           *)
(***************************************************************************)
VARIABLES
    try          \* the goroutine inside TryAcquire: position, arguments,
                 \* locals ipOk and uidOk, what its Takes debited, return value

tryVars == <<try>>

NoDebit == [ipBucket |-> 0, uidBucket |-> 0]

\* a goroutine that is not inside TryAcquire
TryIdle ==
    [pc |-> "idle", ipWeight |-> 0, uidWeight |-> 0, ipOk |-> TRUE, uidOk |-> TRUE,
     took |-> NoDebit, ret |-> FALSE]

InitTryVars == try = TryIdle

\* TryAcquire(ipWeight, uidWeight) is entered: if !rl.enabled { return true };
\* ipOk := true; uidOk := true
TryAcquireCall(ipWeight, uidWeight) ==
    /\ try.pc \in {"idle", "done"}
    /\ try' = [TryIdle EXCEPT !.pc = IF limiter.enabled THEN "ip" ELSE "done",
                              !.ipWeight = ipWeight, !.uidWeight = uidWeight,
                              !.ret = ~limiter.enabled]
    /\ UNCHANGED limiterVars

\* if ipWeight > 0 { ipOk = rl.ipBucket.Take(ipWeight) }
TryTakeIP ==
    /\ try.pc = "ip"
    /\ IF try.ipWeight > 0
       THEN LET r == Take(limiter.ipBucket, try.ipWeight, now)
            IN /\ limiter' = [limiter EXCEPT !.ipBucket = r.tb]
               /\ try' = [try EXCEPT !.pc = "uid", !.ipOk = r.ok,
                                     !.took.ipBucket = IF r.ok THEN try.ipWeight ELSE 0]
       ELSE /\ try' = [try EXCEPT !.pc = "uid"]
            /\ UNCHANGED limiter
    /\ UNCHANGED <<now, waiters>>

\* if uidWeight > 0 { uidOk = rl.uidBucket.Take(uidWeight) }; return ipOk && uidOk
TryTakeUID ==
    /\ try.pc = "uid"
    /\ IF try.uidWeight > 0
       THEN LET r == Take(limiter.uidBucket, try.uidWeight, now)
            IN /\ limiter' = [limiter EXCEPT !.uidBucket = r.tb]
               /\ try' = [try EXCEPT !.pc = "done", !.uidOk = r.ok,
                                     !.took.uidBucket = IF r.ok THEN try.uidWeight ELSE 0,
                                     !.ret = try.ipOk /\ r.ok]
       ELSE /\ try' = [try EXCEPT !.pc = "done", !.ret = try.ipOk]
            /\ UNCHANGED limiter
    /\ UNCHANGED <<now, waiters>>

(***************************************************************************)
(* Client construction (weex/config.go, weex/client.go)                    *)
(***************************************************************************)
VARIABLES
    config,      \* the *Config handed to the constructor
    client,      \* the *Client the constructor returned, NoClient before
    clientErr    \* the error the constructor returned

clientVars == <<config, client, clientErr>>

\* the three credential strings: all set, none set, one missing
Credentials ==
    {[APIKey |-> "key", SecretKey |-> "secret", Passphrase |-> "pass"],
     [APIKey |-> "", SecretKey |-> "", Passphrase |-> ""],
     [APIKey |-> "key", SecretKey |-> "secret", Passphrase |-> ""]}

\* BackoffFactor values a caller may write into a Config, 1.0 included
ConfigFactors == {<<1, 1>>} \cup BackoffFactors

\* the fields of Config that Validate, ValidatePublic and the constructors read
Configs ==
    {[APIKey |-> k.APIKey, SecretKey |-> k.SecretKey, Passphrase |-> k.Passphrase,
      BaseURL |-> u, HTTPTimeout |-> t, MaxRetries |-> n, InitialBackoff |-> i,
      MaxBackoff |-> x, BackoffFactor |-> f] :
        k \in Credentials, u \in {"", "https://api"}, t \in 0..1,
        n \in (0 - 1)..MaxConfigRetries, i \in 0..MaxInitialBackoff,
        x \in 0..MaxBackoffBound, f \in ConfigFactors}

NoClient == [public |-> FALSE, retrier |-> <<>>]

ErrInvalidConfig == <<Layer("sentinel", "ErrInvalidConfig", NilCategory, <<>>)>>

\* Config.Validate
Validate(c) ==
    IF c.APIKey = "" \/ c.SecretKey = "" \/ c.Passphrase = "" THEN ErrorfW(ErrInvalidConfig)
    ELSE IF c.BaseURL = "" THEN ErrorfW(ErrInvalidConfig)
    ELSE IF c.HTTPTimeout <= 0 THEN ErrorfW(ErrInvalidConfig)
    ELSE IF c.MaxRetries < 0 THEN ErrorfW(ErrInvalidConfig)
    ELSE IF c.InitialBackoff <= 0 THEN ErrorfW(ErrInvalidConfig)
    ELSE IF c.MaxBackoff <= 0 THEN ErrorfW(ErrInvalidConfig)
    ELSE IF c.BackoffFactor[1] <= c.BackoffFactor[2] THEN ErrorfW(ErrInvalidConfig)
    ELSE NilError

\* Config.ValidatePublic
ValidatePublic(c) ==
    IF c.BaseURL = "" THEN ErrorfW(ErrInvalidConfig)
    ELSE IF c.HTTPTimeout <= 0 THEN ErrorfW(ErrInvalidConfig)
    ELSE NilError

\* NewRetrier
NewRetrier(maxRetries, initialBackoff, maxBackoff, backoffFactor) ==
    [maxRetries |-> maxRetries, initialBackoff |-> initialBackoff,
     maxBackoff |-> maxBackoff, backoffFactor |-> backoffFactor]

InitClientVars ==
    /\ config \in Configs
    /\ client = NoClient
    /\ clientErr = NilError

\* the constructor body after validation, err what the validation returned
Construct(err, public) ==
    /\ client = NoClient
    /\ clientErr = NilError
    /\ IF err # NilError
       THEN /\ clientErr' = ErrorfW(err)
            /\ UNCHANGED client
       ELSE /\ client' = [public |-> public,
                          retrier |-> NewRetrier(config.MaxRetries, config.InitialBackoff,
                                                 config.MaxBackoff, config.BackoffFactor)]
            /\ UNCHANGED clientErr
    /\ UNCHANGED config

\* NewClient(config)
NewClient == Construct(Validate(config), FALSE)

\* NewPublicClient(config)
NewPublicClient == Construct(ValidatePublic(config), TRUE)

\* c.retrier.DoWithRetry(ctx, fn) on the retrier of the constructed client
CallDoWithRetry ==
    /\ client # NoClient
    /\ pc = "idle"
    /\ retrier' = client.retrier
    /\ pc' = "loop"
    /\ UNCHANGED <<attempt, lastErr, result, ctxDone, timer, outcomes, sleeps,
                   slept, cancelAt>>

(***************************************************************************)
(* Specifications                                                          *)
(***************************************************************************)
vars == <<retryVars, limiterVars, restVars, mutexVars, wsVars, routerVars, errVars, clientVars, tryVars, smVars, lockVars, hbVars>>

\* no goroutine is inside Take step by step
MutexUnused == InitMutexVars

\* no stream session is used: a public client that is never connected
WsUnused == newClient(FALSE)

\* no frame is routed
RouterUnused == routed = <<>>

\* no time passes
HbUnused == InitHbVars

\* the session is not run statement by statement
LockUnused == InitLockVars

\* no goroutine calls a manager of its own
SmUnused == InitSmVars

\* no goroutine is inside TryAcquire
TryUnused == InitTryVars

\* no client is constructed
ClientUnused ==
    /\ config = [APIKey |-> "", SecretKey |-> "", Passphrase |-> "", BaseURL |-> "",
                 HTTPTimeout |-> 0, MaxRetries |-> 0, InitialBackoff |-> 0,
                 MaxBackoff |-> 0, BackoffFactor |-> <<1, 1>>]
    /\ client = NoClient
    /\ clientErr = NilError

\* GetErrorCategory is not called
ErrUnused ==
    /\ code = ""
    /\ category = NilCategory

\* the request pipeline is not part of the run
RestUnused ==
    /\ req = [ipWeight |-> 0, uidWeight |-> 0, build |-> "ok", hasResult |-> FALSE]
    /\ rpc = "idle"
    /\ sent = 0
    /\ att = NoAttempt
    /\ trace = <<>>

\* DoWithRetry around an arbitrary closure
InitRetry ==
    /\ InitRetryVars
    /\ limiter = NewRateLimiter(FALSE, 1, 1, 0)
    /\ now = 0
    /\ waiters = EmptyBag
    /\ RestUnused
    /\ MutexUnused
    /\ WsUnused
    /\ RouterUnused
    /\ ErrUnused
    /\ ClientUnused
    /\ TryUnused
    /\ SmUnused
    /\ LockUnused
    /\ HbUnused

NextRetry ==
    \/ Cancel /\ UNCHANGED <<limiterVars, restVars, mutexVars, wsVars, routerVars, errVars, clientVars, tryVars, smVars, lockVars, hbVars>>
    \/ LoopHead /\ UNCHANGED <<limiterVars, restVars, mutexVars, wsVars, routerVars, errVars, clientVars, tryVars, smVars, lockVars, hbVars>>
    \/ InvokeFn /\ UNCHANGED <<limiterVars, restVars, mutexVars, wsVars, routerVars, errVars, clientVars, tryVars, smVars, lockVars, hbVars>>
    \/ SleepTick /\ UNCHANGED <<limiterVars, restVars, mutexVars, wsVars, routerVars, errVars, clientVars, tryVars, smVars, lockVars, hbVars>>
    \/ TimerFired /\ UNCHANGED <<limiterVars, restVars, mutexVars, wsVars, routerVars, errVars, clientVars, tryVars, smVars, lockVars, hbVars>>
    \/ SleepCancelled /\ UNCHANGED <<limiterVars, restVars, mutexVars, wsVars, routerVars, errVars, clientVars, tryVars, smVars, lockVars, hbVars>>

SpecRetry == InitRetry /\ [][NextRetry]_vars

\* Every started step completes: fn() returns, timers fire, the scheduler
\* runs the goroutine.
FairSpecRetry == SpecRetry /\ WF_vars(NextRetry)

\* Concurrent callers of the two token buckets of one RateLimiter
InitLimiter ==
    /\ InitLimiterVars
    /\ retrier = [maxRetries |-> 0, initialBackoff |-> 1, maxBackoff |-> 1,
                  backoffFactor |-> <<2, 1>>]
    /\ pc = "done"
    /\ attempt = 0
    /\ lastErr = NilError
    /\ result = NilError
    /\ ctxDone = "none"
    /\ timer = 0
    /\ outcomes = <<>>
    /\ sleeps = <<>>
    /\ slept = 0
    /\ cancelAt = [pc |-> "never", calls |-> 0, attempt |-> 0, timer |-> 0]
    /\ RestUnused
    /\ MutexUnused
    /\ WsUnused
    /\ RouterUnused
    /\ ErrUnused
    /\ ClientUnused
    /\ TryUnused
    /\ SmUnused
    /\ LockUnused
    /\ HbUnused

NextLimiter ==
    \/ Tick /\ UNCHANGED <<retryVars, restVars, mutexVars, wsVars, routerVars, errVars, clientVars, tryVars, smVars, lockVars, hbVars>>
    \/ \E b \in BucketNames, n \in Weights :
          TakeCall(b, n) /\ UNCHANGED <<retryVars, restVars, mutexVars, wsVars, routerVars, errVars, clientVars, tryVars, smVars, lockVars, hbVars>>
    \/ \E b \in BucketNames : AvailableCall(b) /\ UNCHANGED <<retryVars, restVars, mutexVars, wsVars, routerVars, errVars, clientVars, tryVars, smVars, lockVars, hbVars>>
    \/ \E b \in BucketNames, n \in Weights :
          WaitCall(b, n) /\ UNCHANGED <<retryVars, restVars, mutexVars, wsVars, routerVars, errVars, clientVars, tryVars, smVars, lockVars, hbVars>>
    \/ \E w \in BagToSet(waiters) : WaitPoll(w) /\ UNCHANGED <<retryVars, restVars, mutexVars, wsVars, routerVars, errVars, clientVars, tryVars, smVars, lockVars, hbVars>>
    \/ \E w \in BagToSet(waiters) : WaitCtxDone(w) /\ UNCHANGED <<retryVars, restVars, mutexVars, wsVars, routerVars, errVars, clientVars, tryVars, smVars, lockVars, hbVars>>
    \/ \E w \in BagToSet(waiters) : CancelCaller(w) /\ UNCHANGED <<retryVars, restVars, mutexVars, wsVars, routerVars, errVars, clientVars, tryVars, smVars, lockVars, hbVars>>

SpecLimiter == InitLimiter /\ [][NextLimiter]_vars

\* One DoRequest call: DoWithRetry around doRequestOnce, on a rate limiter
\* other requests draw from too.  No error of doRequestOnce is retriable
\* (RestNeverBacksOff), so the backoff steps of DoWithRetry never run here.
RestRetriers ==
    {r \in Retriers : /\ r.initialBackoff = 1
                       /\ r.maxBackoff = MaxBackoffBound
                       /\ r.backoffFactor = <<2, 1>>}

InitRest ==
    /\ InitRetryVars
    /\ retrier \in RestRetriers
    /\ \E en \in BOOLEAN : limiter = NewRateLimiter(en, IPWeight, UIDWeight, 0)
    /\ now = 0
    /\ waiters = EmptyBag
    /\ InitRestVars
    /\ MutexUnused
    /\ WsUnused
    /\ RouterUnused
    /\ ErrUnused
    /\ ClientUnused
    /\ TryUnused
    /\ SmUnused
    /\ LockUnused
    /\ HbUnused

NextRest ==
    \/ Cancel /\ UNCHANGED <<limiterVars, restVars, mutexVars, wsVars, routerVars, errVars, clientVars, tryVars, smVars, lockVars, hbVars>>
    \/ LoopHead /\ UNCHANGED <<limiterVars, restVars, mutexVars, wsVars, routerVars, errVars, clientVars, tryVars, smVars, lockVars, hbVars>>
    \/ WaitForCapacity /\ UNCHANGED <<mutexVars, wsVars, routerVars, errVars, clientVars, tryVars, smVars, lockVars, hbVars>>
    \/ WaitTake /\ UNCHANGED <<mutexVars, wsVars, routerVars, errVars, clientVars, tryVars, smVars, lockVars, hbVars>>
    \/ WaitCancelled /\ UNCHANGED <<mutexVars, wsVars, routerVars, errVars, clientVars, tryVars, smVars, lockVars, hbVars>>
    \/ BuildAndSend /\ UNCHANGED <<mutexVars, wsVars, routerVars, errVars, clientVars, tryVars, smVars, lockVars, hbVars>>
    \/ TransportFails /\ UNCHANGED <<mutexVars, wsVars, routerVars, errVars, clientVars, tryVars, smVars, lockVars, hbVars>>
    \/ Respond /\ UNCHANGED <<mutexVars, wsVars, routerVars, errVars, clientVars, tryVars, smVars, lockVars, hbVars>>
    \/ Tick /\ rpc \in {"ipPoll", "uidPoll"} /\ UNCHANGED <<retryVars, restVars, mutexVars, wsVars, routerVars, errVars, clientVars, tryVars, smVars, lockVars, hbVars>>
    \/ \E b \in BucketNames :
          TakeCall(b, 1) /\ pc # "done" /\ UNCHANGED <<retryVars, restVars, mutexVars, wsVars, routerVars, errVars, clientVars, tryVars, smVars, lockVars, hbVars>>

SpecRest == InitRest /\ [][NextRest]_vars

\* The retrier is not part of the run
RetryUnused ==
    /\ retrier = [maxRetries |-> 0, initialBackoff |-> 1, maxBackoff |-> 1,
                  backoffFactor |-> <<2, 1>>]
    /\ pc = "done"
    /\ attempt = 0
    /\ lastErr = NilError
    /\ result = NilError
    /\ ctxDone = "none"
    /\ timer = 0
    /\ outcomes = <<>>
    /\ sleeps = <<>>
    /\ slept = 0
    /\ cancelAt = [pc |-> "never", calls |-> 0, attempt |-> 0, timer |-> 0]

\* Goroutines calling Take and Wait on one shared bucket, each statement of
\* Take a step of its own
InitMutex ==
    /\ InitLimiterVars
    /\ InitMutexVars
    /\ RetryUnused
    /\ RestUnused
    /\ WsUnused
    /\ RouterUnused
    /\ ErrUnused
    /\ ClientUnused
    /\ TryUnused
    /\ SmUnused
    /\ LockUnused
    /\ HbUnused

NextMutex ==
    \/ Tick /\ UNCHANGED <<retryVars, restVars, mutexVars, wsVars, routerVars, errVars, clientVars, tryVars, smVars, lockVars, hbVars>>
    \/ \E g \in Goroutines, n \in Weights, wait \in BOOLEAN :
          CallTake(g, n, wait) /\ UNCHANGED <<retryVars, restVars, wsVars, routerVars, errVars, clientVars, tryVars, smVars, lockVars, hbVars>>
    \/ \E g \in Goroutines : Lock(g) /\ UNCHANGED <<retryVars, restVars, wsVars, routerVars, errVars, clientVars, tryVars, smVars, lockVars, hbVars>>
    \/ \E g \in Goroutines : Refill(g) /\ UNCHANGED <<retryVars, restVars, wsVars, routerVars, errVars, clientVars, tryVars, smVars, lockVars, hbVars>>
    \/ \E g \in Goroutines : Check(g) /\ UNCHANGED <<retryVars, restVars, wsVars, routerVars, errVars, clientVars, tryVars, smVars, lockVars, hbVars>>
    \/ \E g \in Goroutines : Debit(g) /\ UNCHANGED <<retryVars, restVars, wsVars, routerVars, errVars, clientVars, tryVars, smVars, lockVars, hbVars>>
    \/ \E g \in Goroutines : Unlock(g) /\ UNCHANGED <<retryVars, restVars, wsVars, routerVars, errVars, clientVars, tryVars, smVars, lockVars, hbVars>>
    \/ \E g \in Goroutines : PollTick(g) /\ UNCHANGED <<retryVars, restVars, wsVars, routerVars, errVars, clientVars, tryVars, smVars, lockVars, hbVars>>
    \/ \E g \in Goroutines : PollCancelled(g) /\ UNCHANGED <<retryVars, restVars, wsVars, routerVars, errVars, clientVars, tryVars, smVars, lockVars, hbVars>>

SpecMutex == InitMutex /\ [][NextMutex]_vars

\* the rate limiter is not part of the run
LimiterUnused ==
    /\ limiter = NewRateLimiter(FALSE, 1, 1, 0)
    /\ now = 0
    /\ waiters = EmptyBag

\* One stream session, public or private: the application connecting,
\* subscribing and closing, the pumps, the reconnect handlers, and the
\* network and server around them
InitWs ==
    /\ InitWsVars
    /\ RetryUnused
    /\ LimiterUnused
    /\ RestUnused
    /\ MutexUnused
    /\ RouterUnused
    /\ ErrUnused
    /\ ClientUnused
    /\ TryUnused
    /\ SmUnused
    /\ LockUnused
    /\ HbUnused

OtherThanWs ==
    <<retryVars, limiterVars, restVars, mutexVars, routerVars, errVars, clientVars, tryVars, smVars, lockVars, hbVars>>

NextWs ==
    \/ \E r \in DOMAIN procs : ConnectGate(r) /\ UNCHANGED OtherThanWs
    \/ \E r \in DOMAIN procs : DialFails(r) /\ UNCHANGED OtherThanWs
    \/ \E r \in DOMAIN procs : DialSucceeds(r) /\ UNCHANGED OtherThanWs
    \/ \E r \in DOMAIN procs : Authenticate(r) /\ UNCHANGED OtherThanWs
    \/ \E r \in DOMAIN procs : StartPumps(r) /\ UNCHANGED OtherThanWs
    \/ \E r \in DOMAIN procs : Resubscribe(r) /\ UNCHANGED OtherThanWs
    \/ \E r \in DOMAIN procs : handleDisconnect(r) /\ UNCHANGED OtherThanWs
    \/ \E r \in DOMAIN procs : attemptReconnect(r) /\ UNCHANGED OtherThanWs
    \/ \E r \in DOMAIN procs : BackoffDone(r) /\ UNCHANGED OtherThanWs
    \/ \E r \in DOMAIN procs : ReaderLoop(r) /\ UNCHANGED OtherThanWs
    \/ \E r \in DOMAIN procs : ReadError(r) /\ UNCHANGED OtherThanWs
    \/ \E r \in DOMAIN procs : WriterDone(r) /\ UNCHANGED OtherThanWs
    \/ \E r \in DOMAIN procs : WriterWrites(r) /\ UNCHANGED OtherThanWs
    \/ \E r \in DOMAIN procs : PingDone(r) /\ UNCHANGED OtherThanWs
    \/ \E r \in DOMAIN procs : PingTick(r) /\ UNCHANGED OtherThanWs
    \/ Close /\ UNCHANGED OtherThanWs
    \/ \E ch \in Channels : Subscribe(ch) /\ UNCHANGED OtherThanWs
    \/ \E ch \in Channels : Unsubscribe(ch) /\ UNCHANGED OtherThanWs
    \/ \E s \in 1..Len(sockets) : SocketFails(s) /\ UNCHANGED OtherThanWs
    \/ \E s \in 1..Len(sockets), a \in {"ok", "rejected"} :
          ServerLoginAck(s, a) /\ UNCHANGED OtherThanWs

SpecWs == InitWs /\ [][NextWs]_vars

\* A public session after Connect() has returned nil, on a socket that stays
\* up: the server sends frames, the application subscribes and unsubscribes,
\* the writer drains the queue
InitRouter ==
    /\ wsState = "Connected"
    /\ conn = 1
    /\ isPrivate = FALSE
    /\ reconnectCount = 0
    /\ doneClosed = FALSE
    /\ writeChan = <<>>
    /\ registry = {}
    /\ procs = (App :> Proc("idle", 1))
               @@ (<<"reader", 1>> :> Proc("run", 0))
               @@ (<<"writer", 1>> :> Proc("run", 0))
               @@ (<<"ping", 1>> :> Proc("run", 0))
    /\ sockets = <<"open">>
    /\ loginAck = <<"none">>
    /\ wire = << <<>> >>
    /\ fired = [onConnect |-> 1, onDisconnect |-> 0, onError |-> 0]
    /\ calls = 1
    /\ appClosed = FALSE
    /\ fault = FALSE
    /\ routed = <<>>
    /\ RetryUnused
    /\ LimiterUnused
    /\ RestUnused
    /\ MutexUnused
    /\ ErrUnused
    /\ ClientUnused
    /\ TryUnused
    /\ SmUnused
    /\ LockUnused
    /\ HbUnused

OtherThanRouter == <<retryVars, limiterVars, restVars, mutexVars, errVars, clientVars, tryVars, smVars, lockVars, hbVars>>

NextRouter ==
    \/ \E r \in DOMAIN procs : ReaderLoop(r) /\ UNCHANGED <<OtherThanRouter, routed>>
    \/ \E r \in DOMAIN procs, message \in Inbound :
          ReadMessage(r, message) /\ UNCHANGED OtherThanRouter
    \/ \E r \in DOMAIN procs : WriterWrites(r) /\ UNCHANGED <<OtherThanRouter, routed>>
    \/ \E ch \in Channels : Subscribe(ch) /\ UNCHANGED <<OtherThanRouter, routed>>
    \/ \E ch \in Channels : Unsubscribe(ch) /\ UNCHANGED <<OtherThanRouter, routed>>

SpecRouter == InitRouter /\ [][NextRouter]_vars

\* Callers classifying venue codes, one code after the other
InitErr ==
    /\ InitErrVars
    /\ RetryUnused
    /\ LimiterUnused
    /\ RestUnused
    /\ MutexUnused
    /\ WsUnused
    /\ RouterUnused
    /\ ClientUnused
    /\ TryUnused
    /\ SmUnused
    /\ LockUnused
    /\ HbUnused

NextErr ==
    \/ GetErrorCategoryCall
       /\ UNCHANGED <<retryVars, limiterVars, restVars, mutexVars, wsVars, routerVars, clientVars, tryVars, smVars, lockVars, hbVars>>
    \/ \E c \in CodeStrings :
          NextCode(c)
          /\ UNCHANGED <<retryVars, limiterVars, restVars, mutexVars, wsVars, routerVars, clientVars, tryVars, smVars, lockVars, hbVars>>

SpecErr == InitErr /\ [][NextErr]_vars

\* A client is constructed from a Config and its retrier runs one DoWithRetry
InitClient ==
    /\ InitClientVars
    /\ retrier = NewRetrier(0, 1, 1, <<2, 1>>)
    /\ pc = "idle"
    /\ attempt = 0
    /\ lastErr = NilError
    /\ result = NilError
    /\ ctxDone = "none"
    /\ timer = 0
    /\ outcomes = <<>>
    /\ sleeps = <<>>
    /\ slept = 0
    /\ cancelAt = [pc |-> "never", calls |-> 0, attempt |-> 0, timer |-> 0]
    /\ LimiterUnused
    /\ RestUnused
    /\ MutexUnused
    /\ WsUnused
    /\ RouterUnused
    /\ ErrUnused
    /\ TryUnused
    /\ SmUnused
    /\ LockUnused
    /\ HbUnused

OtherThanClient == <<limiterVars, restVars, mutexVars, wsVars, routerVars, errVars, tryVars, smVars, lockVars, hbVars>>

NextClient ==
    \/ NewClient /\ UNCHANGED <<retryVars, OtherThanClient>>
    \/ NewPublicClient /\ UNCHANGED <<retryVars, OtherThanClient>>
    \/ CallDoWithRetry /\ UNCHANGED <<clientVars, OtherThanClient>>
    \/ Cancel /\ UNCHANGED <<clientVars, OtherThanClient>>
    \/ LoopHead /\ UNCHANGED <<clientVars, OtherThanClient>>
    \/ InvokeFn /\ UNCHANGED <<clientVars, OtherThanClient>>
    \/ SleepTick /\ UNCHANGED <<clientVars, OtherThanClient>>
    \/ TimerFired /\ UNCHANGED <<clientVars, OtherThanClient>>
    \/ SleepCancelled /\ UNCHANGED <<clientVars, OtherThanClient>>

SpecClient == InitClient /\ [][NextClient]_vars


\* One goroutine calling TryAcquire while others take from the two buckets
InitTry ==
    /\ InitTryVars
    /\ \E enabled \in BOOLEAN : limiter = NewRateLimiter(enabled, IPWeight, UIDWeight, 0)
    /\ now = 0
    /\ waiters = EmptyBag
    /\ RetryUnused
    /\ RestUnused
    /\ MutexUnused
    /\ WsUnused
    /\ RouterUnused
    /\ ErrUnused
    /\ ClientUnused
    /\ SmUnused
    /\ LockUnused
    /\ HbUnused

OtherThanTry == <<retryVars, restVars, mutexVars, wsVars, routerVars, errVars, clientVars, smVars, lockVars, hbVars>>

NextTry ==
    \/ Tick /\ UNCHANGED <<tryVars, OtherThanTry>>
    \/ \E b \in BucketNames, n \in Weights :
          TakeCall(b, n) /\ UNCHANGED <<tryVars, OtherThanTry>>
    \/ \E ipWeight \in Weights, uidWeight \in Weights :
          TryAcquireCall(ipWeight, uidWeight) /\ UNCHANGED OtherThanTry
    \/ TryTakeIP /\ UNCHANGED OtherThanTry
    \/ TryTakeUID /\ UNCHANGED OtherThanTry

SpecTry == InitTry /\ [][NextTry]_vars

\* Goroutines calling the methods of one SubscriptionManager concurrently
InitSm ==
    /\ InitSmVars
    /\ RetryUnused
    /\ LimiterUnused
    /\ RestUnused
    /\ MutexUnused
    /\ WsUnused
    /\ RouterUnused
    /\ ErrUnused
    /\ ClientUnused
    /\ TryUnused
    /\ LockUnused
    /\ HbUnused

OtherThanSm == <<retryVars, limiterVars, restVars, mutexVars, wsVars, routerVars, errVars, clientVars, tryVars, lockVars, hbVars>>

NextSm ==
    \/ \E g \in Goroutines, op \in Methods, channel \in Channels, handler \in Handlers :
          SmCall(g, op, channel, handler) /\ UNCHANGED OtherThanSm
    \/ \E g \in Goroutines : SmLock(g) /\ UNCHANGED OtherThanSm
    \/ \E g \in Goroutines : SmBody(g) /\ UNCHANGED OtherThanSm
    \/ \E g \in Goroutines : SmUnlock(g) /\ UNCHANGED OtherThanSm

SpecSm == InitSm /\ [][NextSm]_vars

\* A public session run statement by statement around c.mu
InitLock ==
    /\ InitLockVars
    /\ newClient(FALSE)
    /\ RetryUnused
    /\ LimiterUnused
    /\ RestUnused
    /\ MutexUnused
    /\ RouterUnused
    /\ ErrUnused
    /\ ClientUnused
    /\ TryUnused
    /\ SmUnused
    /\ HbUnused

OtherThanLock == <<retryVars, limiterVars, restVars, mutexVars, routerVars, errVars, clientVars, tryVars, smVars, hbVars, isPrivate, writeChan, registry, procs>>

NextLock ==
    \/ \E op \in {"Connect", "Close"} : AppCalls(op) /\ UNCHANGED OtherThanLock
    \/ PumpReturns /\ UNCHANGED OtherThanLock
    \/ ObserverCalls /\ UNCHANGED OtherThanLock
    \/ \E t \in Threads : MuLock(t) /\ UNCHANGED OtherThanLock
    \/ \E t \in Threads : MuRLock(t) /\ UNCHANGED OtherThanLock
    \/ \E t \in Threads : MuUnlock(t) /\ UNCHANGED OtherThanLock
    \/ \E t \in Threads : ConnectGateStep(t) /\ UNCHANGED OtherThanLock
    \/ \E t \in Threads : DialStep(t) /\ UNCHANGED OtherThanLock
    \/ \E t \in Threads : DialFailedStep(t) /\ UNCHANGED OtherThanLock
    \/ \E t \in Threads : ConnectedStep(t) /\ UNCHANGED OtherThanLock
    \/ \E t \in Threads : SpawnStep(t) /\ UNCHANGED OtherThanLock
    \/ \E t \in Threads : CloseStep(t) /\ UNCHANGED OtherThanLock
    \/ \E t \in Threads : DisconnectStep(t) /\ UNCHANGED OtherThanLock
    \/ \E t \in Threads : ReconnectStep(t) /\ UNCHANGED OtherThanLock
    \/ \E t \in Threads : ReadStateStep(t) /\ UNCHANGED OtherThanLock

SpecLock == InitLock /\ [][NextLock]_vars

\* A connected public session with its heartbeat, the clock running
InitHb ==
    /\ wsState = "Connected"
    /\ conn = 1
    /\ isPrivate = FALSE
    /\ reconnectCount = 0
    /\ doneClosed = FALSE
    /\ writeChan = <<>>
    /\ registry = {}
    /\ procs = (App :> Proc("idle", 1))
               @@ (<<"reader", 1>> :> Proc("run", 0))
               @@ (<<"writer", 1>> :> Proc("run", 0))
               @@ (<<"ping", 1>> :> Proc("run", 0))
    /\ sockets = <<"open">>
    /\ loginAck = <<"none">>
    /\ wire = << <<>> >>
    /\ fired = [onConnect |-> 1, onDisconnect |-> 0, onError |-> 0]
    /\ calls = 1
    /\ appClosed = FALSE
    /\ fault = FALSE
    /\ routed = <<>>
    /\ InitHbVars
    /\ RetryUnused
    /\ LimiterUnused
    /\ RestUnused
    /\ MutexUnused
    /\ ErrUnused
    /\ ClientUnused
    /\ TryUnused
    /\ SmUnused
    /\ LockUnused

OtherThanHb == <<retryVars, limiterVars, restVars, mutexVars, errVars, clientVars, tryVars, smVars, lockVars>>

NextHb ==
    \/ HbTick /\ UNCHANGED <<OtherThanHb, wsVars, routed>>
    \/ \E r \in DOMAIN procs : HbReaderLoop(r) /\ UNCHANGED <<OtherThanHb, routed>>
    \/ \E r \in DOMAIN procs : HbPingTick(r) /\ UNCHANGED <<OtherThanHb, routed>>
    \/ \E r \in DOMAIN procs : HbWriterWrites(r) /\ UNCHANGED <<OtherThanHb, routed>>
    \/ ServerPong /\ UNCHANGED <<OtherThanHb, wsVars, routed>>
    \/ ServerControlPong /\ UNCHANGED <<OtherThanHb, wsVars, routed>>
    \/ \E r \in DOMAIN procs : HbReadMessage(r) /\ UNCHANGED OtherThanHb
    \/ \E r \in DOMAIN procs : PongHandler(r) /\ UNCHANGED <<OtherThanHb, wsVars, routed>>
    \/ \E r \in DOMAIN procs : ReadTimeout(r) /\ UNCHANGED <<OtherThanHb, routed>>
    \/ \E r \in DOMAIN procs : handleDisconnect(r) /\ UNCHANGED <<OtherThanHb, hbVars, routed>>

SpecHb == InitHb /\ [][NextHb]_vars

(***************************************************************************)
(* Retrier: properties                                                     *)
(***************************************************************************)
RECURSIVE SumSeq(_)
SumSeq(s) == IF s = <<>> THEN 0 ELSE Head(s) + SumSeq(Tail(s))

Failed(err) == err # NilError

AllRetriableFailures(s) ==
    \A i \in 1..Len(s) : Failed(s[i]) /\ isRetriable(s[i])

\* d is min(maxBackoff, initialBackoff * factor^n) in whole ticks, stated
\* without calculateBackoff
IsCappedExponential(r, n, d) ==
    LET num == r.initialBackoff * Pow(r.backoffFactor[1], n)
        den == Pow(r.backoffFactor[2], n)
    IN /\ d <= r.maxBackoff
       /\ d * den <= num
       /\ d = r.maxBackoff \/ (d + 1) * den > num

\* C1: a closure error that is not retriable ends the call: no invocation
\* follows it, DoWithRetry returns that very error, and when it is the first
\* outcome the closure has been invoked exactly once, whatever maxRetries is.
C1_NonRetriableInvokedOnce ==
    /\ \A i \in 1..Len(outcomes) :
          (Failed(outcomes[i]) /\ ~isRetriable(outcomes[i])) =>
              /\ i = Len(outcomes)
              /\ pc = "done"
              /\ result = outcomes[i]
    /\ (Len(outcomes) >= 1 /\ Failed(outcomes[1]) /\ ~isRetriable(outcomes[1])) =>
          Len(outcomes) = 1

C1_Witness ==
    /\ pc = "done"
    /\ retrier.maxRetries = 3
    /\ outcomes = <<NewAPIError("40007")>>
    /\ result = NewAPIError("40007")
    /\ sleeps = <<>>

\* C2: k retriable failures followed by success (k <= maxRetries): success is
\* returned after k+1 invocations; the i-th failure (i = 0..k-1) is followed
\* by a sleep of min(maxBackoff, initialBackoff * factor^i); nothing is slept
\* before the first attempt; the time slept is at most the sum of the delays
\* and no delay exceeds maxBackoff.
C2_RetriableThenSuccess ==
    /\ (Len(outcomes) = 0) => (sleeps = <<>> /\ slept = 0)
    /\ (Len(outcomes) >= 1 /\ ~Failed(outcomes[Len(outcomes)])) =>
          LET k == Len(outcomes) - 1
          IN /\ pc = "done"
             /\ result = NilError
             /\ k <= retrier.maxRetries
             /\ AllRetriableFailures(SubSeq(outcomes, 1, k))
             /\ Len(sleeps) = k
             /\ \A i \in 1..k :
                   /\ IsCappedExponential(retrier, i - 1, sleeps[i])
                   /\ sleeps[i] <= retrier.maxBackoff
             /\ slept <= SumSeq(sleeps)

C2_Witness ==
    /\ pc = "done"
    /\ result = NilError
    /\ retrier.initialBackoff = 1
    /\ retrier.maxBackoff = 3
    /\ retrier.backoffFactor = <<2, 1>>
    /\ Len(outcomes) = 4
    /\ sleeps = <<1, 2, 3>>
    /\ slept = 6

\* C3 (state part): when every attempt failed with a retriable error and the
\* context was never cancelled, the closure was invoked maxRetries + 1 times,
\* one backoff sleep separates consecutive attempts and none follows the last,
\* and the call returns ErrMaxRetriesExceeded carrying the last error.
C3_ExhaustedState ==
    (pc = "done" /\ ctxDone = "none" /\ AllRetriableFailures(outcomes)) =>
        /\ Len(outcomes) = retrier.maxRetries + 1
        /\ Len(sleeps) = (IF Len(outcomes) = 0 THEN 0 ELSE Len(outcomes) - 1)
        /\ slept = SumSeq(sleeps)
        /\ timer = 0
        /\ result = MaxRetriesExceededError(lastErr)
        /\ ErrorsIs(result, ErrMaxRetriesExceeded)
        /\ lastErr = (IF Len(outcomes) = 0 THEN NilError
                      ELSE outcomes[Len(outcomes)])

C4_CancelStopsRetries ==
    (/\ cancelAt.pc \in {"loop", "sleep"}
     /\ cancelAt.attempt <= retrier.maxRetries) =>
        /\ Len(outcomes) = cancelAt.calls
        /\ pc # "call"
        /\ pc = "done" => (result = CtxErr(ctxDone) /\ result # lastErr)

\* the cancellation fired when the backoff timer had just expired, the select
\* took the timer branch, and the call still returned Cancelled
C4_Witness ==
    /\ pc = "done"
    /\ cancelAt.pc = "sleep"
    /\ cancelAt.timer = 0
    /\ attempt = cancelAt.attempt + 1
    /\ result = ContextCanceled
    /\ Failed(lastErr)
    /\ Len(outcomes) = attempt

(***************************************************************************)
(* TokenBucket: properties                                                 *)
(***************************************************************************)
\* C9: every bucket holds between 0 and capacity tokens in every reachable
\* state, whatever Take, Wait and Available calls concurrent callers issue.
C9_TokensWithinCapacity ==
    \A b \in BucketNames :
        /\ 0 <= limiter[b].tokens
        /\ limiter[b].tokens <= limiter[b].capacity

\* a bucket that was refilled, drained to zero, and has a caller polling on it
C9_Witness ==
    /\ limiter.ipBucket.lastRefill > 0
    /\ limiter.ipBucket.tokens = 0
    /\ \E w \in BagToSet(waiters) : w.b = "ipBucket" /\ w.n <= IPWeight

\* the refill window of bucket b has elapsed at the current instant
RefillDue(b) == now - limiter[b].lastRefill >= limiter[b].refillInterval

\* what an operation asking for n consumes of a bucket holding t tokens
Consumed(n, t) == IF n <= t THEN n ELSE 0

\* bucket b after the step: refilled at the current instant, less n if granted
RefilledThenTook(b, n) ==
    /\ limiter'[b].lastRefill = now
    /\ limiter'[b].tokens = limiter[b].capacity - Consumed(n, limiter[b].capacity)

\* bucket b after the step: not refilled, less n if granted
OnlyTook(b, n) ==
    /\ limiter'[b].lastRefill = limiter[b].lastRefill
    /\ limiter'[b].tokens = limiter[b].tokens - Consumed(n, limiter[b].tokens)

OperationEffect(b, n) ==
    IF RefillDue(b) THEN RefilledThenTook(b, n) ELSE OnlyTook(b, n)

\* C10: a public operation (Take, Wait, Available) that runs when
\* now - lastRefill >= refillInterval sets tokens to capacity and lastRefill
\* to now before its own consumption; while now - lastRefill < refillInterval
\* no step increases tokens or moves lastRefill (no partial refill).
C10_PeriodRefill ==
    [][\A b \in BucketNames :
          /\ \A n \in Weights :
                (TakeCall(b, n) \/ WaitCall(b, n)) => OperationEffect(b, n)
          /\ AvailableCall(b) => OperationEffect(b, 0)
          /\ \A w \in BagToSet(waiters) :
                (w.b = b /\ WaitPoll(w)) => OperationEffect(b, w.n)
          /\ ~RefillDue(b) =>
                /\ limiter'[b].tokens <= limiter[b].tokens
                /\ limiter'[b].lastRefill = limiter[b].lastRefill]_vars

\* a bucket refilled by an operation that took a token at the same instant
C10_Witness ==
    /\ now >= RefillWindow
    /\ limiter.ipBucket.lastRefill = now
    /\ limiter.ipBucket.tokens = limiter.ipBucket.capacity - 1
    /\ limiter.uidBucket.lastRefill = 0
    /\ limiter.uidBucket.tokens = 0

(***************************************************************************)
(* RequestPipeline: properties                                             *)
(***************************************************************************)
\* doRequestOnce never returns an error the retrier classifies as retriable:
\* DoWithRetry never backs off inside DoRequest.
RestNeverBacksOff ==
    /\ pc # "sleep"
    /\ \A i \in 1..Len(trace) : ~isRetriable(trace[i].err)

\* the server's answer to the i-th request in the scenario "429 twice, then
\* success"
AnswersRetryOn429(i, r) ==
    IF i <= 2
    THEN r.wrapped /\ r.code = "429"
    ELSE r.wrapped /\ r.code = "0" /\ r.status = 200 /\ r.data = "ok"

\* C5: with maxRetries = 3 and a server that answers the first two requests
\* with an envelope of code "429" and the third with a success envelope, the
\* request is sent three times and DoRequest returns success on the third
\* attempt.
C5_RetryOn429 ==
    (/\ pc = "done"
     /\ retrier.maxRetries = 3
     /\ cancelAt.pc = "never"
     /\ Len(trace) >= 1
     /\ \A i \in 1..Len(trace) :
           /\ i <= 3
           /\ trace[i].cause = "response"
           /\ AnswersRetryOn429(i, trace[i].resp)) =>
        /\ Len(trace) = 3
        /\ sent = 3
        /\ result = NilError

RetriableHTTPStatuses == {429, 500, 502, 503, 504}

\* an attempt that failed without an envelope code in a way the ErrorModel
\* classifies as retriable
UncodedRetriableFailure(t) ==
    \/ t.cause = "transport" /\ cancelAt.pc = "never"
    \/ /\ t.cause = "response"
       /\ t.resp.code = ""
       /\ t.resp.status \in RetriableHTTPStatuses

\* C6: a transport failure, and an HTTP status in {429, 500, 502, 503, 504}
\* without envelope code, come out of the pipeline as retriable errors, and
\* DoRequest re-drives the request up to maxRetries times before giving up.
C6_UncodedFailuresRetried ==
    \A i \in 1..Len(trace) :
        UncodedRetriableFailure(trace[i]) =>
            /\ isRetriable(trace[i].err)
            /\ (pc = "done" /\ i = Len(trace) /\ cancelAt.pc = "never") =>
                  /\ Len(trace) = retrier.maxRetries + 1
                  /\ ErrorsIs(result, ErrMaxRetriesExceeded)

\* success as the envelope rule states it
EnvelopeSuccess(r) ==
    \/ r.code \in {"0", "200"}
    \/ (r.status >= 200 /\ r.status < 300 /\ r.code = "")

\* C7: parseResponse reports success iff the envelope code is "0" or "200",
\* or the HTTP status is 2xx and no code is carried (for responses whose
\* payload deserializes).
C7_SuccessRule ==
    \A i \in 1..Len(trace) :
        (/\ trace[i].cause = "response"
         /\ trace[i].resp.data # "bad"
         /\ trace[i].resp.direct # "bad") =>
            (trace[i].err = NilError <=> EnvelopeSuccess(trace[i].resp))

\* a categorized error: an APIError with a category, or a NetworkError
Categorized(err) ==
    \/ ErrorsAs(err, "api") /\ AsTarget(err, "api").cat.Type \in ErrorTypes
    \/ ErrorsAs(err, "net")

CategoryOf(err) ==
    IF ErrorsAs(err, "api") THEN AsTarget(err, "api").cat
    ELSE IF ErrorsAs(err, "net") THEN ErrorCategory("Network", TRUE)
    ELSE NilCategory

\* C8: an outcome of DoRequest (here: of a call whose last attempt received
\* a response) is success, a categorized error, Cancelled, or
\* MaxRetriesExceeded around a categorized error; a non-success envelope with
\* code c comes out with the category the table gives c.
C8_OutcomeShapes ==
    (pc = "done" /\ Len(trace) >= 1 /\ trace[Len(trace)].cause = "response") =>
        /\ \/ result = NilError
           \/ Categorized(result)
           \/ ErrorsIsCtx(result)
           \/ /\ ErrorsIs(result, ErrMaxRetriesExceeded)
              /\ Categorized(result[1].text)
        /\ LET last == trace[Len(trace)]
           IN (/\ last.cause = "response"
               /\ last.resp.wrapped
               /\ last.resp.code \notin {"", "0", "200"}
               /\ ~(last.resp.status >= 200 /\ last.resp.status < 300)) =>
                  CategoryOf(result) = GetErrorCategory(last.resp.code)

(***************************************************************************)
(* TokenBucket.Take, Wait and RateLimiter.WaitForCapacity                  *)
(***************************************************************************)
\* C11: Take(n) returns true and reduces tokens by exactly n if and only if
\* n <= the token count after the refill check; when it returns false the
\* token count is exactly what the refill check left.
C11_TakeIffEnough ==
    \A b \in BucketNames, n \in Weights :
        LET left == refill(limiter[b], now)
            r == Take(limiter[b], n, now)
        IN /\ r.ok <=> n <= left.tokens
           /\ r.ok => r.tb.tokens = left.tokens - n
           /\ ~r.ok => r.tb.tokens = left.tokens
           /\ r.tb.lastRefill = left.lastRefill

\* a bucket partly drawn, inside its window, on which a Take of the tokens
\* left is granted and a Take of one more is refused
C11_Witness ==
    \E b \in BucketNames :
        /\ ~RefillDue(b)
        /\ limiter[b].tokens > 0
        /\ limiter[b].tokens < limiter[b].capacity
        /\ Take(limiter[b], limiter[b].tokens, now).ok
        /\ ~Take(limiter[b], limiter[b].tokens + 1, now).ok

\* goroutine g is between tb.mu.Lock() and the deferred Unlock
InCriticalSection(g) == gor[g].pc \in {"refill", "check", "debit", "unlock"}

\* C12: with callers concurrently in Take or Wait on one shared bucket,
\* refill-plus-take is atomic: at most one goroutine is between Lock and
\* Unlock, the weights granted since the last refill never sum to more than
\* capacity, and every granted token was debited exactly once (tokens never
\* go below zero, tokens plus the granted weights is the capacity).
C12_AtomicRefillTake ==
    /\ Cardinality({g \in Goroutines : InCriticalSection(g)}) <= 1
    /\ grantedSum <= limiter.ipBucket.capacity
    /\ limiter.ipBucket.tokens >= 0
    /\ limiter.ipBucket.tokens + grantedSum = limiter.ipBucket.capacity

\* two goroutines after the same tokens: one has passed the check and is
\* about to debit, the other waits for the mutex with a weight the bucket
\* covers now but not after the debit
C12_Witness ==
    \E g \in Goroutines, h \in Goroutines :
        /\ g # h
        /\ gor[g].pc = "debit"
        /\ gor[h].pc = "lock"
        /\ gor[h].n > 0
        /\ gor[h].n <= limiter.ipBucket.tokens
        /\ gor[g].n + gor[h].n > limiter.ipBucket.tokens
        /\ grantedSum > 0

\* C13: a request whose IP (UID) weight exceeds the capacity of the IP (UID)
\* bucket is rejected at the API boundary: it never waits on the bucket (and
\* so terminates without a cancellation) and is never granted.
C13_OverCapacityRejected ==
    rpc \in {"ipPoll", "uidPoll"} =>
        WeightOf(rpc) <= limiter[BucketOf(rpc)].capacity

\* the step is the fast path of tb.Wait(ctx, n) on b and it grants
WaitCallGranted(b, n) == WaitCall(b, n) /\ waiters' = waiters

\* the step is a poll of waiter w and it grants
WaitPollGranted(w) == WaitPoll(w) /\ waiters' = waiters (-) SetToBag({w})

\* a Wait of weight n on b is granted only from tokens the bucket holds or
\* a window that has elapsed, and a Wait of weight <= capacity that runs its
\* Take once the window has elapsed is granted
WaitGrantRule ==
    /\ \A b \in BucketNames, n \in Weights :
          /\ WaitCallGranted(b, n) => (limiter[b].tokens >= n \/ RefillDue(b))
          /\ (WaitCall(b, n) /\ RefillDue(b) /\ n <= limiter[b].capacity)
                => WaitCallGranted(b, n)
    /\ \A w \in BagToSet(waiters) :
          /\ WaitPollGranted(w) => (limiter[w.b].tokens >= w.n \/ RefillDue(w.b))
          /\ (WaitPoll(w) /\ RefillDue(w.b) /\ w.n <= limiter[w.b].capacity)
                => WaitPollGranted(w)

\* a waiter of weight <= capacity that is polling when its bucket is
\* refilled is served from that refill or finds its weight left in the bucket
ServedFromRefill ==
    \A w \in BagToSet(waiters) :
        (/\ w.n <= limiter[w.b].capacity
         /\ limiter'[w.b].lastRefill # limiter[w.b].lastRefill
         /\ BagIn(w, waiters'))
            => limiter'[w.b].tokens >= w.n

\* C14 (as stated): a Wait of weight <= capacity is not granted while the
\* bucket holds fewer tokens than the weight and the window has not elapsed,
\* and it succeeds after at most one refill window: the refill that ends the
\* window it waits in serves it.
C14_SucceedsWithinOneWindow == [][WaitGrantRule /\ ServedFromRefill]_vars

\* C14 (amended): a Wait of weight <= capacity is not granted while the
\* bucket holds fewer tokens than the weight and the window has not elapsed,
\* and it is granted by the first Take it runs once the window has elapsed,
\* provided that Take is the one that refills the bucket; a waiter overtaken
\* by another caller at the refill waits on.
C14_GrantedAtElapsedWindow == [][WaitGrantRule]_vars

\* a waiter of weight equal to capacity polling on a drawn bucket whose
\* window has just elapsed
C14_Witness ==
    \E w \in BagToSet(waiters) :
        /\ w.n = limiter[w.b].capacity
        /\ limiter[w.b].tokens < w.n
        /\ RefillDue(w.b)
        /\ w.ctx = "none"

\* the weights of the request are both zero, or rate limiting is disabled
AdmissionNoOp ==
    \/ ~limiter.enabled
    \/ (req.ipWeight = 0 /\ req.uidWeight = 0)

\* C15: WaitForCapacity called with ip_weight = 0 and uid_weight = 0, or
\* with any weights while rate limiting is disabled, returns success
\* immediately (the same step ends admission, no Wait is entered) and leaves
\* tokens and lastRefill of both buckets unchanged.
C15_AdmissionNoOp ==
    [][(WaitForCapacity /\ AdmissionNoOp) =>
          /\ rpc' = "build"
          /\ att' = Admitted(NoAttempt, now)
          /\ limiter' = limiter]_vars

\* admission has returned for a request with weights on a disabled limiter,
\* nothing drawn
C15_Witness ==
    /\ rpc = "build"
    /\ ~limiter.enabled
    /\ req.ipWeight > 0
    /\ req.uidWeight > 0
    /\ att.ipBucket = 0
    /\ att.uidBucket = 0
    /\ att.steps = <<"admission">>

\* C16: if WaitForCapacity returns because the caller cancelled during
\* admission, that call has taken no tokens from either bucket (also when
\* the cancellation arrives while waiting on the UID bucket after the IP
\* side was acquired).
C16_CancelledTakesNothing ==
    \A i \in 1..Len(trace) :
        trace[i].cause = "admission" =>
            /\ trace[i].att.ipBucket = 0
            /\ trace[i].att.uidBucket = 0

(***************************************************************************)
(* The steps of one attempt of DoRequest                                   *)
(***************************************************************************)
PipelineSteps == <<"admission", "sign", "send", "receive", "parse">>

IsPrefix(p, q) == Len(p) <= Len(q) /\ \A i \in 1..Len(p) : p[i] = q[i]

Did(a, step) == \E i \in 1..Len(a.steps) : a.steps[i] = step

\* the tokens WaitForCapacity draws for the declared weights
DeclaredDraw(b) ==
    IF ~limiter.enabled THEN 0
    ELSE IF b = "ipBucket" THEN req.ipWeight ELSE req.uidWeight

\* what holds of an attempt, running or returned
AttemptInOrder(a) ==
    /\ IsPrefix(a.steps, PipelineSteps)
    /\ Did(a, "admission") =>
          /\ a.ipBucket = DeclaredDraw("ipBucket")
          /\ a.uidBucket = DeclaredDraw("uidBucket")
          /\ a.admittedAt >= 0
    /\ Did(a, "sign") => a.timestamp >= a.admittedAt
    /\ ~Did(a, "sign") => a.timestamp < 0

\* the attempts that handed a request to the transport
Emitting ==
    {i \in 1..Len(trace) : Did(trace[i].att, "send")}

C18_EarlyFailuresTouchNothing ==
    /\ (pc = "done" /\ Len(trace) = 0) => (sent = 0 /\ att = NoAttempt)
    /\ \A i \in 1..Len(trace) :
          trace[i].cause \in {"marshalFails", "newRequestFails"} =>
              /\ trace[i].att.ipBucket = 0
              /\ trace[i].att.uidBucket = 0
              /\ ~Did(trace[i].att, "send")

(***************************************************************************)
(* The session state machine                                               *)
(***************************************************************************)
\* the step runs close(): it closes c.done
ClosesSession == doneClosed' # doneClosed

\* C19: when a Connected session suffers a read error, a write error or a
\* close frame, its state becomes Reconnecting (and stays so until a
\* reconnect attempt succeeds or the attempts are exhausted): a Connected
\* session leaves Connected only for Reconnecting, or for Disconnected by
\* close().
C19_LossLeadsToReconnecting ==
    [][(wsState = "Connected" /\ wsState' # "Connected") =>
          (wsState' = "Reconnecting" \/ ClosesSession)]_vars

\* C20: a private session is never in state Connected (IsConnected true,
\* on-connect started, Subscribe accepted) before the server's login
\* acknowledgement without an error code has been received on its socket;
\* after an acknowledgement with an error code it is not Connected.
C20_ConnectedOnlyAfterLoginAck ==
    (isPrivate /\ wsState = "Connected") =>
        (conn # 0 /\ loginAck[conn] = "ok")

\* C21: once the application's close() has returned, the state is
\* Disconnected, no connection attempt is under way and the session is not
\* Connected again, until the application calls connect(); also when close()
\* is called during a reconnect backoff or a reconnect attempt.
C21_CloseIsTerminal ==
    appClosed =>
        /\ wsState = "Disconnected"
        /\ \A r \in DOMAIN procs : procs[r].pc # "dial"

\* the pump r is inside its loop (a reader or writer that has left the loop
\* and runs handleDisconnect or attemptReconnect is not)
InLoop(r) == procs[r].pc \in {"run", "loop", "read"}

PumpsAlive(kind) == {r \in DOMAIN procs : IsPump(r, kind) /\ InLoop(r)}

\* C22: the pumps of a connection end with it: whatever the number of
\* reconnects, at most one reader, one writer and one heartbeat task are
\* alive at a time.  Pumps that c.done has been closed for, and that have
\* not run since, are left out: they end at their next step.
C22_OnePumpOfEachKind ==
    ~doneClosed =>
        \A kind \in {"reader", "writer", "ping"} :
            Cardinality(PumpsAlive(kind)) <= 1

\* C23: every frame written to a socket was taken from the outbound queue by
\* the writer task; no other task writes to the socket directly.
C23_WriterIsSoleSender ==
    \A s \in 1..Len(wire) :
        \A i \in 1..Len(wire[s]) : wire[s][i].via = "queue"

\* attemptReconnect starts an attempt: the counter goes up and the goroutine
\* sleeps before it calls Connect
StartsAttempt(r) == attemptReconnect(r) /\ reconnectCount < MaxReconnect

\* the k-th attempt is preceded by a delay of min(k * base_delay, cap)
AttemptDelayRule ==
    \A r \in DOMAIN procs :
        StartsAttempt(r) =>
            LET k == reconnectCount'
            IN procs'[r].delay =
                  IF k * ReconnectDelay < DelayCap THEN k * ReconnectDelay
                  ELSE DelayCap

\* the application has called nothing but its first Connect(), which
\* has returned nil
OnlyFirstConnect == ~doneClosed /\ procs[App] = Proc("idle", 1)

\* the loss of a Connected session is handled with the counter at 0, so that
\* MaxReconnect attempts follow it (sessions the application has closed, or
\* has connected a second time, are left out)
LossGetsAllAttempts ==
    \A r \in DOMAIN procs :
        (handleDisconnect(r) /\ wsState = "Connected" /\ OnlyFirstConnect)
            => reconnectCount = 0

\* C24: after a connection loss at most N consecutive reconnect attempts are
\* made, the k-th after a delay of min(k * base_delay, 30 s), and a successful
\* reconnect resets the counter to 0, so that a later loss gets N attempts
\* again.
C24_BoundedBackedOffAttempts ==
    /\ [](reconnectCount \in 0..MaxReconnect)
    /\ [][AttemptDelayRule]_vars
    /\ [][LossGetsAllAttempts]_vars

\* attemptReconnect finds the attempts used up and gives up
GivesUp(r) == attemptReconnect(r) /\ reconnectCount >= MaxReconnect

\* C25: when the reconnect attempts are exhausted the session is left
\* Disconnected and the failure is handed to the application's on-error
\* callback.
C25_ExhaustionSurfaced ==
    [][\A r \in DOMAIN procs :
          GivesUp(r) => /\ wsState' = "Disconnected"
                        /\ fired'.onError = fired.onError + 1]_vars

\* C26: when a connection is re-established with a non-empty registry,
\* exactly one subscribe frame is handed to the outbound queue, and its args
\* are the channels of the registry at that moment.
C26_ResubscribeSendsRegistry ==
    [][\A r \in DOMAIN procs :
          (Resubscribe(r) /\ registry # {}) =>
              writeChan' = Append(writeChan, Frame("subscribe", registry))]_vars

\* Subscribe or Unsubscribe on a connected session whose frame was not
\* queued
FailsToEnqueue(channel) ==
    /\ Subscribe(channel) \/ Unsubscribe(channel)
    /\ wsState = "Connected"
    /\ writeChan' = writeChan

\* C27: a Subscribe or Unsubscribe that fails to enqueue its frame leaves the
\* registry as it was before the call.
C27_FailedCallRestoresRegistry ==
    [][\A channel \in Channels :
          FailsToEnqueue(channel) => registry' = registry]_vars

\* the goroutines with a dial in flight
Dialing == {r \in DOMAIN procs : procs[r].pc = "dial"}

\* a Connect by r that finds the state Connecting or Connected
RefusedConnect(r) == ConnectGate(r) /\ wsState \in {"Connected", "Connecting"}

\* C34: a Connect() issued while the state is Connecting or Connected returns
\* an error and changes no field of the session, and whatever the
\* application's Connect()/Close() calls and the reconnect handlers do, at
\* most one dial is in flight at a time.
C34_ConnectGated ==
    /\ [][\A r \in DOMAIN procs :
            RefusedConnect(r) =>
                /\ procs'[r].pc \in {"idle", "retry"}
                /\ UNCHANGED <<wsState, conn, reconnectCount, doneClosed, writeChan,
                               registry, sockets>>]_vars
    /\ [](Cardinality(Dialing) <= 1)

\* the goroutines inside a reconnect sequence: from the teardown they
\* reported to the end of resubscribe
InReconnect ==
    {r \in DOMAIN procs \ {App} :
        procs[r].pc \in {"retry", "backoff", "gate", "dial", "auth", "spawn", "resub"}}

\* handleDisconnect run by a pump of an earlier connection while a newer
\* connection is established
StaleReport(r) ==
    /\ handleDisconnect(r)
    /\ conn # 0
    /\ conn # r[2]

\* the application has called Connect() once and nothing since, and the
\* first socket has failed once: the two calls counted are these
OneFailureOnly ==
    /\ calls = 2
    /\ ~doneClosed
    /\ sockets # <<>>
    /\ sockets[1] # "open"

\* C35: after one connection failure, with the application idle, at most one
\* reconnect sequence runs at a time although the reader and the writer both
\* report the teardown, and a report by a pump of the previous connection
\* that arrives when the new connection is established leaves the state,
\* c.conn and the new socket alone.
C35_OneSequenceNoStaleTeardown ==
    /\ [](OneFailureOnly => Cardinality(InReconnect) <= 1)
    /\ [][\A r \in DOMAIN procs \ {App} :
            (OneFailureOnly /\ StaleReport(r))
                => UNCHANGED <<wsState, conn, sockets>>]_vars

\* pump r leaves its loop because c.done is closed
ExitsOnDone(r) ==
    \/ WriterDone(r)
    \/ PingDone(r)
    \/ ReaderLoop(r) /\ procs'[r].pc = "hd"

\* C36: no Close() of a Connect()/Close() sequence panics, and a pump leaves
\* its loop on c.done only when its own connection has been torn down: the
\* pumps of a connection made after a Close() go on running.
C36_ReconnectAfterCloseSafe ==
    /\ [][Close => ~fault']_vars
    /\ [][\A r \in DOMAIN procs \ {App} : ExitsOnDone(r) => conn # r[2]]_vars

\* C39: on a private session every subscribe, unsubscribe or ping frame
\* written to a socket comes after the login frame of that socket.
C39_LoginFirst ==
    isPrivate =>
        \A s \in DOMAIN wire :
            \A i \in DOMAIN wire[s] :
                wire[s][i].frame.op \in {"subscribe", "unsubscribe", "ping"}
                    => \E j \in 1..(i - 1) : wire[s][j].frame.op = "login"

\* C32: every read and every write of c.state so far was made by a
\* goroutine holding c.mu, on the paths of Connect (gate, dial failure,
\* success), Close, handleDisconnect, GetState and IsConnected.
C32_StateAccessedUnderMutex == \A a \in accesses : a.locked

(***************************************************************************)
(* Message router: properties                                              *)
(***************************************************************************)
\* the error handed to on-error tells the application the value x
Carries(err, x) == \E i \in 1..Len(err) : err[i] = x

Silent(out) == out.onError = <<>> /\ out.handler = ""

\* on-error is invoked, no handler is, and the error has the frame's code
\* (when it has one) and its msg
ErrorSurfaced(f, out) ==
    /\ out.onError # <<>>
    /\ out.handler = ""
    /\ Carries(out.onError, f.msg)
    /\ f.code # "" => Carries(out.onError, f.code)

\* The routing table, for a frame f routed to out with the registry reg.  An
\* acknowledgement with code "200" is left open: the table does not say
\* whether a stream acknowledgement counts it as success.
RoutedPerTable(f, out, reg) ==
    IF ~f.json \/ f.event = "pong" THEN Silent(out)
    ELSE IF f.event \in {"subscribe", "unsubscribe"}
    THEN IF f.code \in {"", "0"} THEN Silent(out)
         ELSE IF f.code = "200" THEN out.handler = ""
         ELSE ErrorSurfaced(f, out)
    ELSE IF f.event = "error" THEN ErrorSurfaced(f, out)
    ELSE IF f.channel # "" /\ f.channel \in reg
    THEN out = Routed(<<>>, f.channel, <<f>>)
    ELSE Silent(out)

\* the frame the reader has just routed
LastRouted == routed'[Len(routed')]

\* C28: each inbound frame has exactly the outcome of the routing table: pong
\* dropped; subscribe and unsubscribe acknowledgements silent unless they
\* carry a non-success code, then on-error with (code, msg); error frames
\* on-error with (code, msg); other frames to the handler of their
\* registered channel, with the raw frame; nothing for unregistered
\* channels; no control frame reaches a handler.
C28_RoutedPerTable ==
    [][routed' # routed =>
          RoutedPerTable(LastRouted.message, LastRouted.out, registry)]_vars

\* the reader r hands a frame to a handler, which returns an error or panics
BadDispatch(r) ==
    /\ \E message \in Inbound : ReadMessage(r, message)
    /\ LastRouted.result \in {"error", "panic"}

\* C29: a handler that returns an error or panics leaves the session
\* Connected and the reader in its loop, ready for the next frame, and
\* on_error is invoked for the bad dispatch.
C29_HandlerFailureContained ==
    [][\A r \in DOMAIN procs :
          BadDispatch(r) =>
              /\ wsState' = "Connected"
              /\ ~fault'
              /\ r \in DOMAIN procs' /\ procs'[r].pc = "loop"
              /\ fired'.onError = fired.onError + 1]_vars

(***************************************************************************)
(* Client construction: properties                                         *)
(***************************************************************************)
\* the invariants of a retry policy: factor > 1, initial > 0,
\* max >= initial, max_attempts >= 0
RetryPolicyInvariant(r) ==
    /\ r.backoffFactor[1] > r.backoffFactor[2]
    /\ r.initialBackoff > 0
    /\ r.maxBackoff >= r.initialBackoff
    /\ r.maxRetries >= 0

\* C31: every client that NewClient or NewPublicClient returned holds a
\* retrier with factor > 1, initial backoff > 0, max backoff >= initial
\* backoff and max retries >= 0; a Config violating one of these gets an
\* error and no client.
C31_ConstructedPolicyValid ==
    client # NoClient => RetryPolicyInvariant(client.retrier)

\* C37: a DoWithRetry call on the retrier of a constructed client that
\* returned without its context having been cancelled has called the closure
\* at least once, and a MaxRetriesExceeded result always follows an attempt.
C37_AtLeastOneAttempt ==
    (client # NoClient /\ pc = "done")
        => /\ ctxDone = "none" => Len(outcomes) >= 1
           /\ ErrorsIs(result, ErrMaxRetriesExceeded) => Len(outcomes) >= 1

(***************************************************************************)
(* RateLimiter.TryAcquire: properties                                      *)
(***************************************************************************)
\* C38: on an enabled limiter a TryAcquire(ipWeight, uidWeight) that
\* returned true has debited both buckets by their weights, and one that
\* returned false has debited neither bucket.
C38_TryAcquireAllOrNothing ==
    (limiter.enabled /\ try.pc = "done")
        => IF try.ret
           THEN try.took = [ipBucket |-> try.ipWeight, uidBucket |-> try.uidWeight]
           ELSE try.took = NoDebit

(***************************************************************************)
(* SubscriptionManager: properties                                         *)
(***************************************************************************)
\* goroutine g has run the body of op and still holds the lock
Ran(g, op) == smCalls[g].pc = "unlock" /\ smCalls[g].op = op

\* what the method goroutine g has just run must have produced
MethodContract(g) ==
    LET c == smCalls[g]
    IN /\ Ran(g, "Add") => Lookup(subscriptions, c.channel) =
                              [sub |-> Subscription(c.channel, c.handler), exists |-> TRUE]
       /\ Ran(g, "Remove") => c.channel \notin Keys(subscriptions)
       /\ Ran(g, "Clear") => subscriptions = {}
       /\ Ran(g, "Count") => c.ret.count = Cardinality(Keys(subscriptions))
       /\ Ran(g, "GetChannels") =>
             /\ Len(c.ret.channels) = Cardinality(Keys(subscriptions))
             /\ {c.ret.channels[i] : i \in DOMAIN c.ret.channels} = Keys(subscriptions)
       /\ Ran(g, "Exists") => c.ret.exists = (c.channel \in Keys(subscriptions))
       /\ Ran(g, "Get") => c.ret.exists = (c.channel \in Keys(subscriptions))

\* C40: while goroutines call Add, Remove, Clear, Get, GetChannels, Count
\* and Exists concurrently, the manager holds at most one Subscription per
\* channel and an Add leaves exactly the handler it was given; a Count and a
\* GetChannels that hold the lock together agree on the number of channels,
\* an Exists(c) and a Get(c) that hold the lock together agree on whether c
\* has a handler, and when Clear has run the manager is empty.
C40_RegistryConsistent ==
    /\ \A s, t \in subscriptions : s.Channel = t.Channel => s = t
    /\ \A g \in Goroutines : MethodContract(g)
    /\ \A g, h \in Goroutines :
          /\ (Ran(g, "Count") /\ Ran(h, "GetChannels"))
                => smCalls[g].ret.count = Len(smCalls[h].ret.channels)
          /\ (Ran(g, "Exists") /\ Ran(h, "Get")
              /\ smCalls[g].channel = smCalls[h].channel)
                => smCalls[g].ret.exists = smCalls[h].ret.exists

\* an Add has replaced the handler of a channel that was subscribed with
\* another one, while a Count and a GetChannels hold the read lock together
C40_Witness ==
    /\ Ran("g1", "Count") /\ Ran("g2", "GetChannels")
    /\ smCalls["g1"].ret.count = 2
    /\ Subscription("orders", "h2") \in subscriptions
    /\ Subscription("fill", "h1") \in subscriptions

(***************************************************************************)
(* Heartbeat: properties                                                   *)
(***************************************************************************)
\* every firing of the ticker so far put a ping frame on the wire in the
\* tick it was due, the server's {"event":"pong"} arrived in that same tick
\* (well within the pong-wait), and the client has read every reply
EveryPingAnsweredAtOnce ==
    /\ pings # <<>>
    /\ nextPing = (Len(pings) + 1) * PingInterval
    /\ \A i \in DOMAIN pings :
          /\ pings[i].sentAt = i * PingInterval
          /\ pings[i].pongAt = pings[i].sentAt
    /\ arrived = <<>>

\* the read deadline has not expired and the session is Connected
StaysConnected ==
    /\ wsState = "Connected"
    /\ \A r \in DOMAIN procs :
          IsPump(r, "reader") => procs[r].pc \in {"run", "loop", "read"}

\* C33: while the server answers every ping with {"event":"pong"} within the
\* pong-wait (here: in the very tick the ping is written, and the reply is
\* read), the read deadline does not expire and the session stays Connected.
C33_AnsweredPingsKeepSession == EveryPingAnsweredAtOnce => StaysConnected

(***************************************************************************)
(* ErrorModel: properties                                                  *)
(***************************************************************************)
\* the normative table, by its ranges of codes
NormativeCategory(c) ==
    IF c \in {ToString(n) : n \in 40001..40014} \cup {"40753"}
    THEN ErrorCategory("Auth", FALSE)
    ELSE IF c \in {"40022", "50003", "50004"}
    THEN ErrorCategory("Permission", FALSE)
    ELSE IF c \in {"40017", "40019", "40020"}
    THEN ErrorCategory("Validation", FALSE)
    ELSE IF c = "429"
    THEN ErrorCategory("RateLimit", TRUE)
    ELSE IF c \in {"40015", "40018", "50000", "50001", "50002"}
    THEN ErrorCategory("System", TRUE)
    ELSE IF c \in {ToString(n) : n \in 50005..50010}
    THEN ErrorCategory("Business", FALSE)
    ELSE ErrorCategory("Unknown", FALSE)

\* C30: GetErrorCategory returns, for every code string, the category of the
\* normative table: 40001..40014 and 40753 Auth/no, 40022, 50003, 50004
\* Permission/no, 40017, 40019, 40020 Validation/no, 429 RateLimit/yes,
\* 40015, 40018, 50000, 50001, 50002 System/yes, 50005..50010 Business/no,
\* and {Unknown, retriable = false} for every other string.
C30_CategoryOfNormativeTable ==
    category # NilCategory => category = NormativeCategory(code)

\* the call has classified 40753, the Auth code outside the range
C30_Witness ==
    /\ code = "40753"
    /\ category = ErrorCategory("Auth", FALSE)

=============================================================================
